---- MODULE Spec2Model ----
(***************************************************************************)
(* A model of the communication core of PyCamPermanent                     *)
(* (src/pycam/networking/sockets.py and its use in                         *)
(* src/pycam/scripts/pycam_master2.py): the wire codec and its schema,     *)
(* framed reads, the socket server's broadcast routing, the receive        *)
(* workers and the orchestrator's shutdown handler.                        *)
(*                                                                         *)
(* Text is a sequence of units.  A unit is a string that the transport     *)
(* never needs to look inside: a blank " ", one character of the frame     *)
(* terminator, or a run of non-blank characters.  str.split() joins        *)
(* adjacent non-blank units into one token, as Python does.                *)
(*                                                                         *)
(* A Python value is a record [ty, n, s]: ty is its Python type, n its     *)
(* number (bool 0/1, int, float in thousandths) and s its text (str: the   *)
(* units of the string, list: the codes of an error list).                 *)
(***************************************************************************)
EXTENDS Integers, Sequences, FiniteSets, TLC

VARIABLES
    enc_in,         \* codec: the command set handed to encode_comms
    message,        \* codec: the text handed to decode_comms
    return_errors,  \* codec: decode_comms' argument return_errors
    is_server,      \* codec: isinstance(self, SocketServer)
    dec_out,        \* codec: what decode_comms did: [raised, ret]
    codec_pc,       \* codec: "cmd", "framed", "text", "decoded"
    connections,    \* SocketServer.connections: the accepted sockets, in order
    conn_dict,      \* SocketServer.conn_dict: (ip, port) -> [conn, id]
    link,           \* per peer, what its socket does on sendall: "up", "pipe", "reset"
    wire_out,       \* per peer, the byte strings sendall has written to it
    role_q,         \* per local role, the queue q of its CommsCommandHandler
    calls,          \* the command sets passed to send_to_all so far
    call_raised,    \* per call of send_to_all, the exception it raised or "none"
    data_buff,      \* SocketMeths.data_buff of the server object
    sent,           \* per peer, the payloads of the frames it writes in all
    peer_out,       \* per peer, the bytes it has still to write
    wire_in,        \* per peer, the bytes written and not yet read by recv
    peer_eof,       \* per peer, whether it has closed its end
    slot_conn,      \* per CommConnection, its connection (a peer) or "none"
    slot_id,        \* per CommConnection, conn_id
    working,        \* per CommConnection, its flag working
    wk,             \* per CommConnection, its receive thread: [pc, ii]
    slot_q,         \* per CommConnection, its queue q
    frames_got,     \* per CommConnection, the texts recv_comms returned at a terminator
    last_ret,       \* per CommConnection, how its last recv_comms call ended
    mas_pc,         \* MasterComms' handler thread: "idle", "sleep", "wait", "stopped", "dead"
    mas_event,      \* MasterComms.event
    mas_working,    \* MasterComms.working
    listen_open,    \* whether the listening socket is open
    close_tried,    \* the connections EXT has called close_connection on
    wait_at,        \* MasterComms.EXT: the slot its wait loop has reached (index)
    time_wait,      \* MasterComms.EXT: seconds since time_start
    handled,        \* the command sets MasterComms took: [cmd, called, raised]
    accepting,      \* per CommConnection, its flag accepting
    acc,            \* per CommConnection, its acceptance thread: [pc, ii, conn]
    pending,        \* the peers that connected and wait for accept(), in order
    sock_open,      \* the peers whose accepted socket the server holds open
    closes,         \* the calls of close_connection so far: [conn, by, raised]
    main_pc,        \* the main loop of pycam_master2.py: "run", "crashed"
    dev,            \* per device role, its handler thread: [pc, event, working, auto_ss]
    dev_log,        \* the calls of device roles' methods: [role, code, value, replies, raised]
    client,         \* a SocketClient, its connect worker and its caller
    mas_dark_capture,   \* MasterComms.dark_capture: identity -> flag
    main,           \* pycam_master2.py: [running, dark_capture] and what stopped it
    camera          \* one device object, its capture thread and the handler
                    \* thread of its role

codec_vars == <<enc_in, message, return_errors, is_server, dec_out, codec_pc>>
server_vars == <<connections, conn_dict, link, wire_out, role_q, calls, call_raised>>
recv_vars == <<data_buff, sent, peer_out, wire_in, peer_eof, slot_conn, slot_id, working,
               wk, slot_q, frames_got, last_ret>>
shut_vars == <<mas_pc, mas_event, mas_working, listen_open, close_tried, wait_at,
               time_wait, handled>>
acc_vars == <<accepting, acc, pending, sock_open, closes, main_pc>>
proc_vars == <<dev, dev_log, client, mas_dark_capture, main>>
cam_vars == <<camera>>

vars == <<enc_in, message, return_errors, is_server, dec_out, codec_pc,
          connections, conn_dict, link, wire_out, role_q, calls, call_raised,
          data_buff, sent, peer_out, wire_in, peer_eof, slot_conn, slot_id, working,
          wk, slot_q, frames_got, last_ret,
          mas_pc, mas_event, mas_working, listen_open, close_tried, wait_at,
          time_wait, handled,
          accepting, acc, pending, sock_open, closes, main_pc,
          dev, dev_log, client, mas_dark_capture, main, camera>>

-----------------------------------------------------------------------------
(* Python values and dictionaries (insertion-ordered)                      *)

PyBool(b) == [ty |-> "bool", n |-> IF b THEN 1 ELSE 0, s |-> <<>>]
PyInt(n) == [ty |-> "int", n |-> n, s |-> <<>>]
PyFloat(t) == [ty |-> "float", n |-> t, s |-> <<>>]
PyStr(u) == [ty |-> "str", n |-> 0, s |-> u]
PyList(l) == [ty |-> "list", n |-> 0, s |-> l]

Keys(d) == {d[i].k : i \in DOMAIN d}
Has(d, key) == key \in Keys(d)
Get(d, key) == d[CHOOSE i \in DOMAIN d : d[i].k = key].v
Put(d, key, val) ==
    IF Has(d, key)
    THEN [i \in DOMAIN d |-> IF d[i].k = key THEN [k |-> key, v |-> val] ELSE d[i]]
    ELSE Append(d, [k |-> key, v |-> val])
Del(d, key) == SelectSeq(d, LAMBDA e : e.k # key)
\* dict | dict: the left keys first, values of the right win
RECURSIVE Merge(_, _)
Merge(a, b) == IF b = <<>> THEN a ELSE Merge(Put(a, Head(b).k, Head(b).v), Tail(b))
\* truthiness of a Python value
Truthy(v) ==
    IF v.ty \in {"str", "list"} THEN v.s # <<>> ELSE v.n # 0

Pair(key, val) == [k |-> key, v |-> val]

-----------------------------------------------------------------------------
(* SendRecvSpecs and the command schema CommsFuncs.cmd_dict                *)

end_str == <<"E", "N", "D", "\r", "\n">>

pix_num_y == 486
pix_num == 2048

StrT(allowed) == [ty |-> "str", lo |-> 0, hi |-> 0, allowed |-> allowed]
IntT(lo, hi) == [ty |-> "int", lo |-> lo, hi |-> hi, allowed |-> {}]
FloatT(lo, hi) == [ty |-> "float", lo |-> lo, hi |-> hi, allowed |-> {}]
BoolT == [ty |-> "bool", lo |-> 0, hi |-> 1, allowed |-> {}]

\* every key of cmd_dict but ERR, which is added last with these as its domain
BaseCodes ==
    {"IDN", "DST", "SSA", "SSB", "SSS", "FRC", "FRS", "ATA", "ATB", "ATS",
     "CAD", "SMN", "SMX", "PXC", "RWC", "PXS", "WMN", "WMX", "SNS", "SXS",
     "TPA", "TPB", "TPS", "DKC", "DFC", "DKS", "DFS", "SPC", "SPS", "STC",
     "STS", "EXT", "DXT", "RST", "LOG", "HLO", "HLA", "HLB", "HLS", "HLM",
     "GBY", "SAV", "NIA", "NIB", "NMA", "NMB", "NIS", "CLI", "MSG"}

CmdCodes == BaseCodes \cup {"ERR"}

\* floats are in thousandths: [0.0, 1.0] is [0, 1000]
cmd_dict ==
    [c \in CmdCodes |->
        CASE c = "IDN" -> StrT({"CM1", "CM2", "SPE", "EXN", "MAS", "NUL"})
          [] c = "DST" -> StrT({"CM1", "CM2", "SPE", "EXN", "MAS"})
          [] c \in {"SSA", "SSB"} -> IntT(1, 6000001)
          [] c = "SSS" -> IntT(1, 10001)
          [] c = "FRC" -> FloatT(0, 1000)
          [] c = "FRS" -> FloatT(0, 10000)
          [] c = "CAD" -> IntT(0, 20)
          [] c \in {"SMN", "SNS"} -> FloatT(0, 900)
          [] c \in {"SMX", "SXS"} -> FloatT(100, 1000)
          [] c = "PXC" -> IntT(0, 10000)
          [] c = "RWC" -> IntT(-pix_num_y, pix_num_y)
          [] c = "PXS" -> IntT(0, pix_num)
          [] c \in {"WMN", "WMX"} -> IntT(300, 400)
          [] c \in {"TPA", "TPB", "TPS", "NIA", "NIB", "NMA", "NMB", "NIS", "MSG"}
                -> StrT({})
          [] c = "LOG" -> IntT(0, 5)
          [] c = "GBY" -> IntT(0, 65535)
          [] c = "ERR" -> StrT(BaseCodes)
          [] OTHER -> BoolT]

-----------------------------------------------------------------------------
(* Number formatting and parsing                                           *)

\* The integers and the 2-decimal floats (in hundredths) that occur as text
\* anywhere in the model.  int() and float() are modelled on these: every
\* input token that Python would parse is the spelling of one of them.
IntUniverse ==
    {-487, -486, -1, 0, 1, 2, 5, 6, 20, 21, 400, 401, 1023, 1024, 5001, 5002,
     65535, 65536, 6000001, 6000002, 7000000}
HundredthsUniverse == {0, 1, 12, 33, 38, 50, 90, 91, 100, 101}

Digit(n) == ToString(n)
\* '{:.2f}'.format(x): x in thousandths, rounded half to even on hundredths
\* (exact for the ties k/8 that a binary float can hold)
RoundHundredths(t) ==
    LET q == t \div 10
        r == t % 10
    IN  IF r < 5 THEN q
        ELSE IF r > 5 THEN q + 1
        ELSE IF q % 2 = 0 THEN q ELSE q + 1
FormatHundredths(h) ==
    ToString(h \div 100) \o "." \o Digit((h % 100) \div 10) \o Digit(h % 10)
FormatFloat2(t) == FormatHundredths(RoundHundredths(t))
\* str(x) of a float with at most three decimals
ReprFloat(t) ==
    LET d == t % 1000
        frac == IF d % 100 = 0 THEN Digit(d \div 100)
                ELSE IF d % 10 = 0 THEN Digit(d \div 100) \o Digit((d % 100) \div 10)
                ELSE Digit(d \div 100) \o Digit((d % 100) \div 10) \o Digit(d % 10)
    IN  ToString(t \div 1000) \o "." \o frac

\* int(token): [ok, n]; ok = FALSE is ValueError
ParseInt(tok) ==
    IF \E n \in IntUniverse : ToString(n) = tok
    THEN [ok |-> TRUE, n |-> CHOOSE n \in IntUniverse : ToString(n) = tok]
    ELSE [ok |-> FALSE, n |-> 0]
\* float(token), in thousandths: an integer spelling or a 2-decimal spelling
ParseFloat(tok) ==
    IF ParseInt(tok).ok THEN [ok |-> TRUE, n |-> 1000 * ParseInt(tok).n]
    ELSE IF \E h \in HundredthsUniverse : FormatHundredths(h) = tok
    THEN [ok |-> TRUE,
          n |-> 10 * (CHOOSE h \in HundredthsUniverse : FormatHundredths(h) = tok)]
    ELSE [ok |-> FALSE, n |-> 0]

\* str(list of codes): "['SSA', 'SSB']" has a blank after each comma
RECURSIVE FormatListFrom(_, _)
FormatListFrom(l, i) ==
    IF i > Len(l) THEN <<>>
    ELSE LET open == IF i = 1 THEN "[" ELSE ""
             close == IF i = Len(l) THEN "]" ELSE ","
         IN  <<open \o "'" \o l[i] \o "'" \o close>>
             \o (IF i < Len(l) THEN <<" ">> ELSE <<>>)
             \o FormatListFrom(l, i + 1)
FormatList(l) == IF l = <<>> THEN <<"[]">> ELSE FormatListFrom(l, 1)

\* int(x) of a bool, int or float value
IntOf(v) == IF v.ty = "float" THEN v.n \div 1000 ELSE v.n
\* float(x) of a bool, int or float value, in thousandths
ThousandthsOf(v) == IF v.ty = "float" THEN v.n ELSE 1000 * v.n
\* '{}'.format(x)
FormatAny(v) ==
    CASE v.ty = "str" -> v.s
      [] v.ty = "list" -> FormatList(v.s)
      [] v.ty = "bool" -> IF v.n = 1 THEN <<"True">> ELSE <<"False">>
      [] v.ty = "float" -> <<ReprFloat(v.n)>>
      [] OTHER -> <<ToString(v.n)>>

-----------------------------------------------------------------------------
(* SocketMeths.encode_comms                                                *)

\* the token a value is rendered as under its key's schema type
encode_value(key, v) ==
    IF cmd_dict[key].ty \in {"bool", "int"} THEN <<ToString(IntOf(v))>>
    ELSE IF cmd_dict[key].ty = "float" THEN <<FormatFloat2(ThousandthsOf(v))>>
    ELSE FormatAny(v)

RECURSIVE encode_pairs(_)
encode_pairs(d) ==
    IF d = <<>> THEN <<>>
    ELSE LET e == Head(d)
         IN  (IF e.k \notin CmdCodes THEN <<>>
              ELSE <<e.k, " ">> \o encode_value(e.k, e.v) \o <<" ">>)
             \o encode_pairs(Tail(d))

encode_comms(d) == encode_pairs(d) \o end_str

-----------------------------------------------------------------------------
(* SocketMeths.decode_comms                                                *)

IsSpace(u) == u \in {" ", "\r", "\n", "\t"}

\* str.split(): maximal runs of non-blank units, each run joined to a token
RECURSIVE SplitFrom(_, _, _, _)
SplitFrom(text, i, cur, out) ==
    IF i > Len(text) THEN (IF cur = "" THEN out ELSE Append(out, cur))
    ELSE IF IsSpace(text[i])
         THEN SplitFrom(text, i + 1, "", IF cur = "" THEN out ELSE Append(out, cur))
         ELSE SplitFrom(text, i + 1, cur \o text[i], out)
split(text) == SplitFrom(text, 1, "", <<>>)

ErrIsList(ret) == Has(ret, "ERR") /\ Get(ret, "ERR").ty = "list"
\* if return_errors and isinstance(cmd_ret['ERR'], list): cmd_ret['ERR'].append(key)
FlagError(ret, key, re) ==
    IF re /\ ErrIsList(ret)
    THEN Put(ret, "ERR", PyList(Append(Get(ret, "ERR").s, key)))
    ELSE ret

\* one pass of the loop body for the token at position j (Python's i = j - 1):
\* [raised, ret]
decode_token(mess_list, j, ret, re) ==
    LET key == mess_list[j]
        tok == mess_list[j + 1]
        sch == cmd_dict[key]
        num == IF sch.ty = "int" THEN ParseInt(tok) ELSE ParseFloat(tok)
    IN  IF j >= 2 /\ mess_list[j - 1] = "ERR" THEN [raised |-> FALSE, ret |-> ret]
        ELSE IF key \notin CmdCodes THEN [raised |-> FALSE, ret |-> ret]
        ELSE IF sch.ty = "bool"
             THEN IF tok \notin {"1", "0"}
                  THEN [raised |-> FALSE, ret |-> FlagError(ret, key, re)]
                  ELSE [raised |-> FALSE, ret |-> Put(ret, key, PyBool(tok = "1"))]
        ELSE IF sch.ty = "str"
             THEN IF sch.allowed = {} \/ tok \in sch.allowed
                  THEN [raised |-> FALSE, ret |-> Put(ret, key, PyStr(<<tok>>))]
                  ELSE [raised |-> FALSE, ret |-> FlagError(ret, key, re)]
        ELSE IF ~num.ok THEN [raised |-> TRUE, ret |-> ret]
        ELSE IF num.n < sch.lo \/ num.n > sch.hi
             THEN [raised |-> FALSE, ret |-> FlagError(ret, key, re)]
        ELSE [raised |-> FALSE,
              ret |-> Put(ret, key, IF sch.ty = "int" THEN PyInt(num.n)
                                    ELSE PyFloat(num.n))]

\* for i in range(len(mess_list) - 1)
RECURSIVE decode_loop(_, _, _, _)
decode_loop(mess_list, j, ret, re) ==
    IF j > Len(mess_list) - 1 THEN [raised |-> FALSE, ret |-> ret]
    ELSE LET r == decode_token(mess_list, j, ret, re)
         IN  IF r.raised THEN r ELSE decode_loop(mess_list, j + 1, r.ret, re)

\* drop_err without the test for an empty error list
drop_err_keeps_empty(ret, re) ==
    IF ~re
    THEN Del(ret, "ERR")
    ELSE ret

\* del cmd_ret['ERR'] when the list is empty or errors are not returned
drop_err(ret, re) ==
    IF (ErrIsList(ret) /\ Get(ret, "ERR").s = <<>>) \/ ~re
    THEN Del(ret, "ERR")
    ELSE ret

\* decode_comms(message, return_errors) on an object that is a SocketServer
\* (server) or not: [raised, ret]; raised is the ValueError of int()/float()
decode_comms(text, ret_errs, server) ==
    LET re == ret_errs \/ server
        r == decode_loop(split(text), 1, <<[k |-> "ERR", v |-> PyList(<<>>)]>>, re)
    IN  IF r.raised THEN [raised |-> TRUE, ret |-> <<>>]
        ELSE [raised |-> FALSE, ret |-> drop_err(r.ret, re)]

\* nothing decoded yet
NoDecode == [raised |-> FALSE, ret |-> <<>>]

-----------------------------------------------------------------------------
(* The socket server: its peers, its registry and its local roles          *)

\* the remote ends; two of them share a port number on different hosts
Peers == {"p1", "p2"}
Addr(p) == IF p = "p1" THEN <<"10.0.0.1", 50001>> ELSE <<"10.0.0.2", 50001>>

\* internal_connections, MasterComms first (pycam_master2.py)
Roles == <<"MAS", "CM1", "CM2", "SPE">>
RoleSet == {Roles[i] : i \in DOMAIN Roles}

EmptyQueues == [r \in RoleSet |-> <<>>]
NoWrites == [p \in Peers |-> <<>>]

\* a server with nobody connected and nothing sent
ServerIdle ==
    /\ connections = <<>>
    /\ conn_dict = <<>>
    /\ link = [p \in Peers |-> "up"]
    /\ wire_out = NoWrites
    /\ role_q = EmptyQueues
    /\ calls = <<>>
    /\ call_raised = <<>>

\* the codec taken on its own
\* no device object is followed
CamIdle == camera = [role |-> "none"]

CodecIdle ==
    /\ enc_in = [given |-> FALSE, cmd |-> <<>>]
    /\ message = <<>>
    /\ return_errors = FALSE
    /\ is_server = TRUE
    /\ dec_out = NoDecode
    /\ codec_pc = "idle"

\* bytes.find(pattern): the first index (from 0) or -1
Occurs(buff, pat, i) ==
    /\ i + Len(pat) <= Len(buff)
    /\ \A k \in 1..Len(pat) : buff[i + k] = pat[k]
find(buff, pat) ==
    IF \E i \in 0..Len(buff) : Occurs(buff, pat, i)
    THEN CHOOSE i \in 0..Len(buff) :
            Occurs(buff, pat, i) /\ \A j \in 0..(i - 1) : ~Occurs(buff, pat, j)
    ELSE -1

\* the two CommConnection objects of ext_connections (pycam_master2.py)
Slots == {"1", "2"}

\* no external connection being read
RecvIdle ==
    /\ data_buff = <<>>
    /\ sent = [p \in Peers |-> <<>>]
    /\ peer_out = [p \in Peers |-> <<>>]
    /\ wire_in = [p \in Peers |-> <<>>]
    /\ peer_eof = [p \in Peers |-> FALSE]
    /\ slot_conn = [sl \in Slots |-> "none"]
    /\ slot_id = [sl \in Slots |-> "none"]
    /\ working = [sl \in Slots |-> FALSE]
    /\ wk = [sl \in Slots |-> [pc |-> "none", ii |-> 0]]
    /\ slot_q = [sl \in Slots |-> <<>>]
    /\ frames_got = [sl \in Slots |-> <<>>]
    /\ last_ret = [sl \in Slots |-> "none"]

\* the orchestrator's handler running, nothing shut down
ShutIdle ==
    /\ mas_pc = "idle"
    /\ mas_event = FALSE
    /\ mas_working = TRUE
    /\ listen_open = TRUE
    /\ close_tried = {}
    /\ wait_at = 1
    /\ time_wait = 0
    /\ handled = <<>>

\* no acceptance thread modelled: the accepted sockets are those of the list
AccIdle ==
    /\ accepting = [sl \in Slots |-> FALSE]
    /\ acc = [sl \in Slots |-> [pc |-> "none", ii |-> 0, conn |-> "none"]]
    /\ pending = <<>>
    /\ sock_open = {connections[i] : i \in DOMAIN connections}
    /\ closes = {}
    /\ main_pc = "run"

\* the device roles of the local server
DevRoles == {"CM1", "CM2", "SPE"}

\* no handler thread of a device role modelled
DevIdle ==
    /\ dev = [r \in DevRoles |->
                [pc |-> "none", event |-> FALSE, working |-> FALSE, auto_ss |-> FALSE]]
    /\ dev_log = <<>>

\* no client modelled
ClientIdle == client = [pc |-> "none"]

\* pycam_master2.py at "Send off the command line arguments": running, with
\* dark capture asked for on the command line (-d) or not, no command taken
\* and no signal handled yet.  at is its place: "start", "while", the
\* connection whose queue it reads ("c1", "c2"), "aggregate", "exited"; stops,
\* dxt_in_dark and fwd_in_dark record what it did
MainAt(d) ==
    [running |-> TRUE, dark_capture |-> d, dark_capture_launch |-> d,
     at |-> "start", taken |-> 0, signals |-> 0, stops |-> {},
     dxt_in_dark |-> FALSE, fwd_in_dark |-> <<>>]

\* MasterComms.__init__: self.dark_capture
NoDark == [r \in DevRoles |-> FALSE]

\* the main loop not modelled
MainIdle ==
    /\ mas_dark_capture = NoDark
    /\ main = MainAt(FALSE)

ProcIdle == DevIdle /\ ClientIdle /\ MainIdle

\* x == "EXN" and "EXN" in x for a value x (codes are three letters, so a
\* substring of a code-sized string is the string)
StrEq(v, code) == v.ty = "str" /\ v.s = <<code>>
StrIn(code, v) == v.ty = "str" /\ \E i \in DOMAIN v.s : v.s[i] = code

\* SocketServer.close_connection(connection=c): the branch that finds c in
\* the connection list calls networkLogging.infp, which a logging.Logger
\* does not have: AttributeError, before the socket or either table is
\* touched.  When c is not in the list, ip stays None and the call returns.
\* [raised, connections, conn_dict]
close_connection(conns, cdict, c) ==
    IF \E i \in DOMAIN conns : conns[i] = c
    THEN [raised |-> "AttributeError", connections |-> conns, conn_dict |-> cdict]
    ELSE [raised |-> "none", connections |-> conns, conn_dict |-> cdict]

\* one call of close_connection, as the history closes records it
Closed(c, by, raised) == [conn |-> c, by |-> by, raised |-> raised]

\* the test for the external connections that wants a DST naming EXN
ExtEligible_needs_dst(cmd) ==
    /\ Has(cmd, "DST") /\ StrIn("EXN", Get(cmd, "DST"))
    /\ ~Has(cmd, "IDN") \/ ~StrEq(Get(cmd, "IDN"), "EXN")

\* send_to_all's test for the external connections
ExtEligible(cmd) ==
    /\ ~Has(cmd, "DST") \/ StrIn("EXN", Get(cmd, "DST"))
    /\ ~Has(cmd, "IDN") \/ ~StrEq(Get(cmd, "IDN"), "EXN")
\* send_to_all's test for the local role with identity r
IntEligible(cmd, r) ==
    /\ ~Has(cmd, "DST") \/ StrIn(r, Get(cmd, "DST"))
    /\ ~Has(cmd, "IDN") \/ ~StrEq(Get(cmd, "IDN"), r)

\* the loop over self.connections: sendall on each eligible connection.
\* BrokenPipeError is caught and close_connection called; its
\* AttributeError, and any other error of sendall, leaves the loop and
\* send_to_all.  st = [raised, connections, conn_dict, wire_out, closes]
RECURSIVE ext_loop(_, _, _, _, _)
ext_loop(i, cmd, cmd_bytes, lnk, st) ==
    IF i > Len(st.connections) THEN st
    ELSE LET c == st.connections[i]
         IN  IF ~ExtEligible(cmd) THEN ext_loop(i + 1, cmd, cmd_bytes, lnk, st)
             ELSE IF lnk[c] = "up"
             THEN ext_loop(i + 1, cmd, cmd_bytes, lnk,
                      [st EXCEPT !.wire_out[c] = Append(@, cmd_bytes)])
             ELSE IF lnk[c] = "pipe"
             THEN LET cl == close_connection(st.connections, st.conn_dict, c)
                      log == st.closes \cup {Closed(c, "send_to_all", cl.raised)}
                  IN  IF cl.raised # "none"
                      THEN [st EXCEPT !.raised = cl.raised, !.closes = log]
                      ELSE ext_loop(i + 1, cmd, cmd_bytes, lnk,
                               [st EXCEPT !.connections = cl.connections,
                                          !.conn_dict = cl.conn_dict,
                                          !.closes = log])
             ELSE [st EXCEPT !.raised = "ConnectionResetError"]

\* the loop over self.internal_connections: conn.q.put(cmd)
RECURSIVE int_loop(_, _, _)
int_loop(i, cmd, q) ==
    IF i > Len(Roles) THEN q
    ELSE int_loop(i + 1, cmd,
             IF IntEligible(cmd, Roles[i])
             THEN [q EXCEPT ![Roles[i]] = Append(@, cmd)]
             ELSE q)

\* SocketServer.send_to_all(cmd):
\* [raised, connections, conn_dict, wire_out, closes, role_q]
send_to_all(cmd, conns, cdict, lnk, wout, q) ==
    LET ext == ext_loop(1, cmd, encode_comms(cmd), lnk,
                   [raised |-> "none", connections |-> conns,
                    conn_dict |-> cdict, wire_out |-> wout, closes |-> {}])
    IN  [raised |-> ext.raised, connections |-> ext.connections,
         conn_dict |-> ext.conn_dict, wire_out |-> ext.wire_out,
         closes |-> ext.closes,
         role_q |-> IF ext.raised = "none" THEN int_loop(1, cmd, q) ELSE q]

-----------------------------------------------------------------------------
(* Broadcast routing: a server with its peers registered, commands passed  *)
(* to send_to_all, and peers that go away                                  *)

MaxSends == 2       \* calls of send_to_all

\* the lists of distinct peers
PeerLists ==
    {l \in UNION {[1..n -> Peers] : n \in 0..Cardinality(Peers)} :
        \A i, j \in DOMAIN l : i # j => l[i] # l[j]}
\* identities a peer may give in its handshake (cmd_dict['IDN'])
PeerIds == {"EXN", "CM1"}

\* command sets passed to send_to_all: a source or none, a destination or
\* none, one command
RouteTags == {"", "EXN", "CM1"}
RouteCmd(src, dst) ==
    (IF src = "" THEN <<>> ELSE <<Pair("IDN", PyStr(<<src>>))>>)
    \o <<Pair("HLO", PyBool(TRUE))>>
    \o (IF dst = "" THEN <<>> ELSE <<Pair("DST", PyStr(<<dst>>))>>)
RouteCmds == {RouteCmd(src, dst) : src \in RouteTags, dst \in RouteTags}

\* a registry that holds the peers of the list with their identities
Registered(conns, ids) ==
    [a \in {Addr(conns[i]) : i \in DOMAIN conns} |->
        LET p == CHOOSE p \in Peers : Addr(p) = a /\ \E i \in DOMAIN conns : conns[i] = p
        IN  [conn |-> p, id |-> ids[p]]]

RouteInit ==
    /\ CodecIdle
    /\ CamIdle
    /\ RecvIdle
    /\ ShutIdle
    /\ connections \in PeerLists
    /\ \E ids \in [Peers -> PeerIds] : conn_dict = Registered(connections, ids)
    /\ link = [p \in Peers |-> "up"]
    /\ wire_out = NoWrites
    /\ role_q = EmptyQueues
    /\ calls = <<>>
    /\ call_raised = <<>>
    /\ AccIdle
    /\ ProcIdle

\* any caller (a role's reply, the main loop's forwarding): send_to_all(cmd)
SendToAll ==
    /\ Len(calls) < MaxSends
    /\ \E cmd \in RouteCmds :
        LET r == send_to_all(cmd, connections, conn_dict, link, wire_out, role_q)
        IN  /\ connections' = r.connections
            /\ conn_dict' = r.conn_dict
            /\ wire_out' = r.wire_out
            /\ role_q' = r.role_q
            /\ calls' = Append(calls, cmd)
            /\ call_raised' = Append(call_raised, r.raised)
            /\ closes' = closes \cup r.closes
    /\ UNCHANGED link
    /\ UNCHANGED codec_vars
    /\ UNCHANGED cam_vars
    /\ UNCHANGED <<accepting, acc, pending, sock_open, main_pc>>
    /\ UNCHANGED recv_vars
    /\ UNCHANGED shut_vars
    /\ UNCHANGED proc_vars

\* a peer goes away: the next sendall to it fails, with a broken pipe or
\* with another transport error
PeerGoesAway ==
    /\ \E p \in Peers, how \in {"pipe", "reset"} :
        /\ \E i \in DOMAIN connections : connections[i] = p
        /\ link[p] = "up"
        /\ link' = [link EXCEPT ![p] = how]
    /\ UNCHANGED <<connections, conn_dict, wire_out, role_q, calls, call_raised>>
    /\ UNCHANGED codec_vars
    /\ UNCHANGED cam_vars
    /\ UNCHANGED acc_vars
    /\ UNCHANGED recv_vars
    /\ UNCHANGED shut_vars
    /\ UNCHANGED proc_vars

RouteNext == SendToAll \/ PeerGoesAway

SpecRoute == RouteInit /\ [][RouteNext]_vars

-----------------------------------------------------------------------------
(* Framed reads and the receive workers: peers write byte streams, the     *)
(* transport hands them over in chunks, and each CommConnection's thread   *)
(* runs recv_comms, decode_comms and q.put on the one server object        *)

MaxFrames == 2      \* frames in the stream of a peer
PollBudget == 5     \* for ii in range(0, 5)

\* recv_comms that starts an empty buffer after it returned a frame
recv_pass_loses_rest(buff, avail, eof) ==
    LET ready == find(buff, end_str) = -1 /\ (avail # <<>> \/ eof)
        buff1 == IF ready THEN buff \o avail ELSE buff
        end_idx == find(buff1, end_str)
    IN  IF ready /\ avail = <<>>
        THEN [outcome |-> "ConnectionResetError", ret |-> <<>>,
              data_buff |-> buff, taken |-> FALSE]
        ELSE IF end_idx >= 0
        THEN [outcome |-> "frame", ret |-> SubSeq(buff1, 1, end_idx),
              data_buff |-> <<>>, taken |-> ready]
        ELSE [outcome |-> "again", ret |-> <<>>,
              data_buff |-> buff1, taken |-> ready]

\* one pass of the loop body of recv_comms, given the bytes recv would
\* return and whether the peer has closed:
\* [outcome, ret, data_buff, taken]; outcome is "frame" (return ret),
\* "again" (end of the pass) or "ConnectionResetError"
recv_pass(buff, avail, eof) ==
    LET ready == find(buff, end_str) = -1 /\ (avail # <<>> \/ eof)
        buff1 == IF ready THEN buff \o avail ELSE buff
        end_idx == find(buff1, end_str)
    IN  IF ready /\ avail = <<>>
        THEN [outcome |-> "ConnectionResetError", ret |-> <<>>,
              data_buff |-> buff, taken |-> FALSE]
        ELSE IF end_idx >= 0
        THEN [outcome |-> "frame", ret |-> SubSeq(buff1, 1, end_idx),
              data_buff |-> SubSeq(buff1, end_idx + Len(end_str) + 1, Len(buff1)),
              taken |-> ready]
        ELSE [outcome |-> "again", ret |-> <<>>,
              data_buff |-> buff1, taken |-> ready]

\* the payloads a peer frames: a command, the empty text, and a command
\* whose number does not parse
FramePayloads ==
    {<<"HLO", " ", "1", " ">>, <<>>, <<"SSA", " ", "abc", " ">>}
PayloadLists == UNION {[1..n -> FramePayloads] : n \in 0..MaxFrames}
\* with two peers, each frames one command
WorkerPayloads == {<<"HLO", " ", "1", " ">>, <<"EXT", " ", "1", " ">>}
WorkerPayloadLists == {<<w>> : w \in WorkerPayloads}
RECURSIVE StreamOf(_)
StreamOf(payloads) ==
    IF payloads = <<>> THEN <<>>
    ELSE Head(payloads) \o end_str \o StreamOf(Tail(payloads))

\* the transport hands the next n bytes a peer wrote to the server's socket
Deliver ==
    /\ \E p \in Peers :
        /\ ~peer_eof[p]
        /\ \E n \in 1..Len(peer_out[p]) :
            /\ wire_in' = [wire_in EXCEPT ![p] = @ \o SubSeq(peer_out[p], 1, n)]
            /\ peer_out' = [peer_out EXCEPT ![p] = SubSeq(@, n + 1, Len(@))]
    /\ UNCHANGED <<data_buff, sent, peer_eof, slot_conn, slot_id, working, wk, slot_q,
                   frames_got, last_ret>>
    /\ UNCHANGED codec_vars
    /\ UNCHANGED cam_vars
    /\ UNCHANGED acc_vars
    /\ UNCHANGED server_vars
    /\ UNCHANGED shut_vars
    /\ UNCHANGED proc_vars

\* the same in coarser chunks: the next ChunkLen bytes or all of the rest
ChunkLen == 3
DeliverChunk ==
    /\ \E p \in Peers :
        /\ ~peer_eof[p]
        /\ \E n \in {ChunkLen, Len(peer_out[p])} :
            /\ 1 <= n /\ n <= Len(peer_out[p])
            /\ wire_in' = [wire_in EXCEPT ![p] = @ \o SubSeq(peer_out[p], 1, n)]
            /\ peer_out' = [peer_out EXCEPT ![p] = SubSeq(@, n + 1, Len(@))]
    /\ UNCHANGED <<data_buff, sent, peer_eof, slot_conn, slot_id, working, wk, slot_q,
                   frames_got, last_ret>>
    /\ UNCHANGED codec_vars
    /\ UNCHANGED cam_vars
    /\ UNCHANGED acc_vars
    /\ UNCHANGED server_vars
    /\ UNCHANGED shut_vars
    /\ UNCHANGED proc_vars

\* a peer closes its end
PeerCloses ==
    /\ \E p \in Peers :
        /\ p \in sock_open \/ \E i \in DOMAIN pending : pending[i] = p
        /\ ~peer_eof[p]
        /\ peer_eof' = [peer_eof EXCEPT ![p] = TRUE]
    /\ UNCHANGED <<data_buff, sent, peer_out, wire_in, slot_conn, slot_id, working, wk,
                   slot_q, frames_got, last_ret>>
    /\ UNCHANGED codec_vars
    /\ UNCHANGED cam_vars
    /\ UNCHANGED acc_vars
    /\ UNCHANGED server_vars
    /\ UNCHANGED shut_vars
    /\ UNCHANGED proc_vars

\* dec_mess of CommConnection._thread_func: decode_comms(message), tagged
\* with conn_id when it has no IDN
tagged(dec_mess, conn_id) ==
    IF Has(dec_mess, "IDN") THEN dec_mess
    ELSE Put(dec_mess, "IDN", PyStr(<<conn_id>>))

\* CommConnection._thread_func of one slot: one pass of the loop of
\* recv_comms and, when the call returns, the rest of the loop body
WorkerPass(sl) ==
    LET c == slot_conn[sl]
        r == recv_pass(data_buff, wire_in[c], peer_eof[c])
        dec == decode_comms(r.ret, FALSE, TRUE)
        cl == close_connection(connections, conn_dict, c)
    IN  /\ wk[sl].pc = "recv"
        /\ data_buff' = r.data_buff
        /\ wire_in' = IF r.taken THEN [wire_in EXCEPT ![c] = <<>>] ELSE wire_in
        /\ CASE r.outcome = "ConnectionResetError" ->
                    \* except socket.error: close_connection, break
                    /\ wk' = [wk EXCEPT ![sl] =
                                [pc |-> IF cl.raised = "none" THEN "stopped" ELSE "dead",
                                 ii |-> 0]]
                    /\ working' = [working EXCEPT ![sl] =
                                IF cl.raised = "none" THEN FALSE ELSE @]
                    /\ connections' = cl.connections
                    /\ conn_dict' = cl.conn_dict
                    /\ closes' = closes \cup {Closed(c, "worker", cl.raised)}
                    /\ UNCHANGED <<slot_q, frames_got, last_ret>>
             [] r.outcome = "frame" ->
                    /\ frames_got' = [frames_got EXCEPT ![sl] = Append(@, r.ret)]
                    /\ last_ret' = [last_ret EXCEPT ![sl] = "frame"]
                    /\ IF r.ret = <<>>
                       THEN \* if not message: continue
                            /\ wk' = [wk EXCEPT ![sl] = [pc |-> "recv", ii |-> 0]]
                            /\ UNCHANGED slot_q
                       ELSE IF dec.raised
                       THEN \* ValueError is not a socket.error: the thread ends
                            /\ wk' = [wk EXCEPT ![sl] = [pc |-> "dead", ii |-> 0]]
                            /\ UNCHANGED slot_q
                       ELSE /\ wk' = [wk EXCEPT ![sl] = [pc |-> "recv", ii |-> 0]]
                            /\ slot_q' = [slot_q EXCEPT ![sl] =
                                   Append(@, tagged(dec.ret, slot_id[sl]))]
                    /\ UNCHANGED <<working, connections, conn_dict, closes>>
             [] r.outcome = "again" ->
                    /\ IF wk[sl].ii + 1 = PollBudget
                       THEN \* return "": if not message: continue
                            /\ wk' = [wk EXCEPT ![sl] = [pc |-> "recv", ii |-> 0]]
                            /\ last_ret' = [last_ret EXCEPT ![sl] = "empty"]
                       ELSE /\ wk' = [wk EXCEPT ![sl] = [pc |-> "recv", ii |-> @.ii + 1]]
                            /\ last_ret' = [last_ret EXCEPT ![sl] = "none"]
                    /\ UNCHANGED <<slot_q, frames_got, working, connections, conn_dict,
                                   closes>>
        /\ UNCHANGED <<sent, peer_out, peer_eof, slot_conn, slot_id>>
        /\ UNCHANGED <<link, wire_out, role_q, calls, call_raised>>
        /\ UNCHANGED codec_vars
        /\ UNCHANGED cam_vars
        /\ UNCHANGED <<accepting, acc, pending, sock_open, main_pc>>
        /\ UNCHANGED shut_vars
        /\ UNCHANGED proc_vars

Worker == \E sl \in Slots : WorkerPass(sl)

RecvNext == Deliver \/ PeerCloses \/ Worker

\* the server with the given peers accepted on the slots in turn, their
\* handshakes read, their receive threads started and their streams unsent
RecvInit(conns, lists, idents) ==
    /\ CodecIdle
    /\ CamIdle
    /\ ShutIdle
    /\ connections = conns
    /\ \E ids \in idents :
        /\ conn_dict = Registered(conns, ids)
        /\ slot_id = [sl \in Slots |->
                        IF sl = "1" /\ Len(conns) >= 1 THEN ids[conns[1]]
                        ELSE IF sl = "2" /\ Len(conns) >= 2 THEN ids[conns[2]]
                        ELSE "none"]
    /\ slot_conn = [sl \in Slots |->
                        IF sl = "1" /\ Len(conns) >= 1 THEN conns[1]
                        ELSE IF sl = "2" /\ Len(conns) >= 2 THEN conns[2]
                        ELSE "none"]
    /\ working = [sl \in Slots |-> slot_conn[sl] # "none"]
    /\ wk = [sl \in Slots |->
                [pc |-> IF slot_conn[sl] # "none" THEN "recv" ELSE "none", ii |-> 0]]
    /\ link = [p \in Peers |-> "up"]
    /\ wire_out = NoWrites
    /\ role_q = EmptyQueues
    /\ calls = <<>>
    /\ call_raised = <<>>
    /\ data_buff = <<>>
    /\ sent \in [Peers -> lists]
    /\ \A p \in Peers : (\A i \in DOMAIN conns : conns[i] # p) => sent[p] = <<>>
    /\ peer_out = [p \in Peers |-> StreamOf(sent[p])]
    /\ wire_in = [p \in Peers |-> <<>>]
    /\ peer_eof = [p \in Peers |-> FALSE]
    /\ slot_q = [sl \in Slots |-> <<>>]
    /\ frames_got = [sl \in Slots |-> <<>>]
    /\ last_ret = [sl \in Slots |-> "none"]

\* one peer, one reader of the buffer
FrameInit ==
    RecvInit(<<"p1">>, PayloadLists, [Peers -> {"EXN"}]) /\ AccIdle /\ ProcIdle
SpecFrame == FrameInit /\ [][RecvNext]_vars

\* two peers, each read by the thread of its own slot
WorkersInit ==
    /\ RecvInit(<<"p1", "p2">>, WorkerPayloadLists,
                {ids \in [Peers -> PeerIds] : ids["p1"] = "EXN"})
    /\ AccIdle
    /\ ProcIdle
WorkersNext == DeliverChunk \/ PeerCloses \/ Worker
SpecWorkers == WorkersInit /\ [][WorkersNext]_vars

-----------------------------------------------------------------------------
(* Shutdown: an EXT command reaches MasterComms, whose handler thread runs *)
(* MasterComms.EXT                                                         *)

\* MasterComms.id
MasId == <<Pair("IDN", PyStr(<<"MAS">>))>>
\* self.id | comm
send_tagged(id, comm) == Merge(id, comm)

\* the command sets with EXT that reach send_to_all: the signal handler's,
\* and an external client's forwarded by the main loop
ExitCmds ==
    {<<Pair("IDN", PyStr(<<"NUL">>)), Pair("EXT", PyInt(1))>>,
     <<Pair("IDN", PyStr(<<"EXN">>)), Pair("EXT", PyBool(TRUE))>>,
     <<Pair("IDN", PyStr(<<"EXN">>)), Pair("EXT", PyBool(FALSE))>>,
     <<Pair("IDN", PyStr(<<"EXN">>)), Pair("RST", PyBool(TRUE))>>}
\* RST calls self.EXT(value, cmd_source)
ExitKey(cmd) == IF Has(cmd, "EXT") THEN "EXT" ELSE "RST"

\* the slots without a connection have their acceptance thread in accept()
AccListening ==
    /\ accepting = [sl \in Slots |-> slot_conn[sl] = "none"]
    /\ acc = [sl \in Slots |->
                [pc |-> IF slot_conn[sl] = "none" THEN "accept" ELSE "none",
                 ii |-> 0, conn |-> "none"]]
    /\ pending = <<>>
    /\ sock_open = {connections[i] : i \in DOMAIN connections}
    /\ closes = {}
    /\ main_pc = "run"

\* the server with some peers accepted and registered, nothing to read
ShutdownInit ==
    /\ \E conns \in PeerLists : RecvInit(conns, {<<>>}, [Peers -> PeerIds])
    /\ AccListening
    /\ ProcIdle

\* signal_handler, or the main loop forwarding a client's command:
\* sock_serv_ext.send_to_all(cmd)
SendExit ==
    /\ Len(calls) < MaxSends
    /\ \E cmd \in ExitCmds :
        LET r == send_to_all(cmd, connections, conn_dict, link, wire_out, role_q)
        IN  /\ connections' = r.connections
            /\ conn_dict' = r.conn_dict
            /\ wire_out' = r.wire_out
            /\ role_q' = r.role_q
            /\ calls' = Append(calls, cmd)
            /\ call_raised' = Append(call_raised, r.raised)
            /\ closes' = closes \cup r.closes
    /\ UNCHANGED link
    /\ UNCHANGED codec_vars
    /\ UNCHANGED cam_vars
    /\ UNCHANGED <<accepting, acc, pending, sock_open, main_pc>>
    /\ UNCHANGED recv_vars
    /\ UNCHANGED shut_vars
    /\ UNCHANGED proc_vars

\* _handle_commands of MasterComms takes a command set from its queue and
\* calls the method of each key; IDN does nothing, EXT (which RST calls) runs
\* up to its sleep.
\* AttributeError out of a method is swallowed (continue); any other
\* exception of send_to_all ends the thread
MasHandle ==
    /\ mas_pc = "idle"
    /\ role_q["MAS"] # <<>>
    /\ LET cmd == Head(role_q["MAS"])
           rest == [role_q EXCEPT !["MAS"] = Tail(@)]
           reply == IF Truthy(Get(cmd, ExitKey(cmd)))
                    THEN send_tagged(MasId, <<Pair("GBY", PyBool(TRUE))>>)
                    ELSE send_tagged(MasId, <<Pair("ERR", PyStr(<<"EXT">>))>>)
           r == send_to_all(reply, connections, conn_dict, link, wire_out, rest)
       IN  IF ~Has(cmd, "EXT") /\ ~Has(cmd, "RST")
           THEN /\ role_q' = rest
                /\ UNCHANGED <<connections, conn_dict, wire_out, calls, call_raised,
                               mas_pc, mas_event, mas_working, closes>>
           ELSE /\ connections' = r.connections
                /\ conn_dict' = r.conn_dict
                /\ wire_out' = r.wire_out
                /\ role_q' = r.role_q
                /\ calls' = Append(calls, reply)
                /\ call_raised' = Append(call_raised, r.raised)
                /\ closes' = closes \cup r.closes
                /\ mas_event' = (mas_event \/ Truthy(Get(cmd, ExitKey(cmd))))
                /\ mas_pc' =
                      IF r.raised \notin {"none", "AttributeError"} THEN "dead"
                      ELSE IF ~Truthy(Get(cmd, ExitKey(cmd))) THEN "idle"
                      ELSE IF r.raised = "none" THEN "sleep"
                      ELSE "stopped"
                /\ mas_working' =
                      IF Truthy(Get(cmd, ExitKey(cmd))) /\ r.raised = "AttributeError"
                      THEN FALSE ELSE mas_working
    /\ UNCHANGED <<link, listen_open, close_tried, wait_at, time_wait, handled>>
    /\ UNCHANGED codec_vars
    /\ UNCHANGED cam_vars
    /\ UNCHANGED <<accepting, acc, pending, sock_open, main_pc>>
    /\ UNCHANGED recv_vars
    /\ UNCHANGED proc_vars

\* for conn in self.socket.connections[:]: close_connection(connection=conn[0]);
\* st = [raised, connections, conn_dict, tried, closes]
RECURSIVE close_all(_, _, _)
close_all(snapshot, i, st) ==
    IF i > Len(snapshot) THEN st
    ELSE LET cl == close_connection(st.connections, st.conn_dict, snapshot[i])
             st1 == [raised |-> cl.raised, connections |-> cl.connections,
                     conn_dict |-> cl.conn_dict,
                     tried |-> st.tried \cup {snapshot[i]},
                     closes |-> st.closes \cup {Closed(snapshot[i], "EXT", cl.raised)}]
         IN  IF cl.raised # "none" THEN st1 ELSE close_all(snapshot, i + 1, st1)

\* MasterComms.EXT after time.sleep(3): the loop over the connections, then
\* close_socket; an AttributeError leaves EXT and is swallowed by
\* _handle_commands, whose loop then ends because the event is set
MasCloseAll ==
    /\ mas_pc = "sleep"
    /\ LET st == close_all(connections, 1,
                     [raised |-> "none", connections |-> connections,
                      conn_dict |-> conn_dict, tried |-> close_tried,
                      closes |-> closes])
       IN  /\ connections' = st.connections
           /\ conn_dict' = st.conn_dict
           /\ close_tried' = st.tried
           /\ closes' = st.closes
           /\ IF st.raised = "none"
              THEN /\ listen_open' = FALSE
                   /\ mas_pc' = "wait"
                   /\ UNCHANGED mas_working
              ELSE /\ mas_pc' = "stopped"
                   /\ mas_working' = FALSE
                   /\ UNCHANGED listen_open
    /\ UNCHANGED <<link, wire_out, role_q, calls, call_raised, mas_event>>
    /\ UNCHANGED <<wait_at, time_wait, handled>>
    /\ UNCHANGED codec_vars
    /\ UNCHANGED cam_vars
    /\ UNCHANGED <<accepting, acc, pending, sock_open, main_pc>>
    /\ UNCHANGED recv_vars
    /\ UNCHANGED proc_vars

\* timeout = 5 of MasterComms.EXT, in seconds
timeout == 5
\* ext_connections in the order of its keys
SlotOrder == <<"1", "2">>

\* a wait loop that never gives up
timed_out_never(t) == FALSE

\* if time_wait > timeout: break
timed_out(t) == t > timeout

\* one iteration of the wait for the threads of the slots: the slot in turn
\* has both flags down (next slot), or the time is up (break, next slot), or
\* a second passes; after the last slot EXT returns and the handler's loop
\* ends
MasWait ==
    /\ mas_pc = "wait"
    /\ IF wait_at > Len(SlotOrder)
       THEN /\ mas_pc' = "stopped"
            /\ mas_working' = FALSE
            /\ UNCHANGED <<wait_at, time_wait>>
       ELSE /\ UNCHANGED <<mas_pc, mas_working>>
            /\ IF ~(working[SlotOrder[wait_at]] \/ accepting[SlotOrder[wait_at]])
               THEN /\ wait_at' = wait_at + 1
                    /\ UNCHANGED time_wait
               ELSE IF timed_out(time_wait)
               THEN /\ wait_at' = wait_at + 1
                    /\ UNCHANGED time_wait
               ELSE /\ time_wait <= timeout
                    /\ time_wait' = time_wait + 1
                    /\ UNCHANGED wait_at
    /\ UNCHANGED <<mas_event, listen_open, close_tried, handled>>
    /\ UNCHANGED codec_vars
    /\ UNCHANGED cam_vars
    /\ UNCHANGED acc_vars
    /\ UNCHANGED server_vars
    /\ UNCHANGED recv_vars
    /\ UNCHANGED proc_vars

\* the acceptance thread of a slot in SocketServer.acc_connection at
\* self.sock.accept(): on a closed listening socket accept raises, which
\* acc_connection answers with (None, None) and _acc_connection with
\* accepting = False; else the first waiting peer is accepted and appended to
\* the connection list, and the handshake is to be read
AccAccept(sl) ==
    /\ acc[sl].pc = "accept"
    /\ IF ~listen_open
       THEN /\ accepting' = [accepting EXCEPT ![sl] = FALSE]
            /\ acc' = [acc EXCEPT ![sl] = [pc |-> "none", ii |-> 0, conn |-> "none"]]
            /\ UNCHANGED <<pending, sock_open, connections>>
       ELSE /\ pending # <<>>
            /\ connections' = Append(connections, Head(pending))
            /\ sock_open' = sock_open \cup {Head(pending)}
            /\ pending' = Tail(pending)
            /\ acc' = [acc EXCEPT ![sl] =
                          [pc |-> "handshake", ii |-> 0, conn |-> Head(pending)]]
            /\ UNCHANGED accepting
    /\ UNCHANGED <<closes, main_pc>>
    /\ UNCHANGED <<conn_dict, link, wire_out, role_q, calls, call_raised>>
    /\ UNCHANGED codec_vars
    /\ UNCHANGED cam_vars
    /\ UNCHANGED recv_vars
    /\ UNCHANGED shut_vars
    /\ UNCHANGED proc_vars

Accept == \E sl \in Slots : AccAccept(sl)

ShutdownNext ==
    SendExit \/ PeerGoesAway \/ MasHandle \/ MasCloseAll \/ MasWait \/ Accept

SpecShutdown == ShutdownInit /\ [][ShutdownNext]_vars

\* the handler thread of MasterComms is scheduled as long as it can run:
\* once it is in EXT it goes on through the sleep, the closing loop and the
\* wait.  (It takes no further command after EXT=true, so fairness of
\* MasHandle would add nothing to what follows the event.)
SpecShutdownFair ==
    /\ ShutdownInit
    /\ [][ShutdownNext]_vars
    /\ WF_vars(MasCloseAll)
    /\ WF_vars(MasWait)

-----------------------------------------------------------------------------
(* Dispatch: the main loop forwards the command sets of clients, and the   *)
(* handler thread of MasterComms calls the method of each code             *)

\* command sets of a client, tagged by its worker and forwarded by the main
\* loop: a goodbye with the client's remote port, a hello before it, a
\* goodbye of the old kind, a hello, and a shutter speed for camera A (a
\* code MasterComms has no method for) with a hello and a goodbye
ClientCmds ==
    {<<Pair("IDN", PyStr(<<"EXN">>)), Pair("GBY", PyInt(Addr("p1")[2]))>>,
     <<Pair("IDN", PyStr(<<"EXN">>)), Pair("HLO", PyBool(TRUE)),
       Pair("GBY", PyInt(Addr("p1")[2]))>>,
     <<Pair("IDN", PyStr(<<"CM1">>)), Pair("GBY", PyInt(1))>>,
     <<Pair("IDN", PyStr(<<"EXN">>)), Pair("HLO", PyBool(TRUE))>>,
     <<Pair("IDN", PyStr(<<"EXN">>)), Pair("SSA", PyInt(1)),
       Pair("HLO", PyBool(TRUE)), Pair("GBY", PyInt(Addr("p1")[2]))>>}

\* the codes MasterComms has a method for: those of CommsFuncs (IDN, DST, GBY),
\* of CommsCommandHandler (EXT) and its own; getattr raises AttributeError for
\* every other code
MasHandlers ==
    {"IDN", "DST", "GBY", "EXT", "HLO", "CLI", "DKC", "DFC", "DKS", "DFS", "DXT",
     "RST"}

\* the main loop: sock_serv_ext.send_to_all(comm_cmd)
Forward ==
    /\ Len(calls) < MaxSends
    /\ \E cmd \in ClientCmds :
        LET r == send_to_all(cmd, connections, conn_dict, link, wire_out, role_q)
        IN  /\ connections' = r.connections
            /\ conn_dict' = r.conn_dict
            /\ wire_out' = r.wire_out
            /\ role_q' = r.role_q
            /\ calls' = Append(calls, cmd)
            /\ call_raised' = Append(call_raised, r.raised)
            /\ closes' = closes \cup r.closes
    /\ UNCHANGED link
    /\ UNCHANGED codec_vars
    /\ UNCHANGED cam_vars
    /\ UNCHANGED <<accepting, acc, pending, sock_open, main_pc>>
    /\ UNCHANGED recv_vars
    /\ UNCHANGED shut_vars
    /\ UNCHANGED proc_vars

\* to_close of MasterComms.GBY: below 1024 the connection registered with
\* the sender's identity (if value), else the one whose remote port is value;
\* the last match of the loop over the registry, whose order is taken to be
\* that of the connection list.  "none" for None
gby_target(conns, cdict, value, cmd_source) ==
    LET match(p) ==
            /\ Addr(p) \in DOMAIN cdict
            /\ IF value.n < 1024
               THEN StrEq(cmd_source, cdict[Addr(p)].id) /\ Truthy(value)
               ELSE Addr(p)[2] = value.n
        hits == {i \in DOMAIN conns : match(conns[i])}
    IN  IF hits = {} THEN "none"
        ELSE conns[CHOOSE i \in hits : \A j \in hits : j <= i]

\* self.dark_capture[id] = b
SetFlag(flags, id, b) ==
    [k \in DOMAIN flags \cup {id} |-> IF k = id THEN b ELSE flags[k]]

\* the identity a command source names
IdOf(cmd_source) ==
    IF cmd_source.ty = "str" /\ Len(cmd_source.s) = 1 THEN cmd_source.s[1] ELSE "?"

\* DFC and DFS with a true value clear every flag
dark_capture_after_clears_all(flags, key, value, id) ==
    IF ~Truthy(value) THEN flags
    ELSE IF key = "DKC" THEN SetFlag(SetFlag(flags, "CM1", TRUE), "CM2", TRUE)
    ELSE IF key = "DKS" THEN SetFlag(flags, "SPE", TRUE)
    ELSE [k \in DOMAIN flags |-> FALSE]

\* MasterComms.DKC, DFC, DKS, DFS: with a true value DKC sets the flags of
\* both cameras, DKS that of the spectrometer, DFC and DFS clear the flag of
\* the command's source
dark_capture_after(flags, key, value, id) ==
    IF ~Truthy(value) THEN flags
    ELSE IF key = "DKC" THEN SetFlag(SetFlag(flags, "CM1", TRUE), "CM2", TRUE)
    ELSE IF key = "DKS" THEN SetFlag(flags, "SPE", TRUE)
    ELSE SetFlag(flags, id, FALSE)

\* st after a call of send_to_all(cmd) that did r
with_sent(st, cmd, r) ==
    [st EXCEPT !.raised = r.raised, !.connections = r.connections,
               !.conn_dict = r.conn_dict, !.wire_out = r.wire_out,
               !.role_q = r.role_q,
               !.calls = Append(@, cmd),
               !.call_raised = Append(@, r.raised),
               !.closes = @ \cup r.closes]
\* self.socket.send_to_all(cmd) inside a method
sent_by(st, cmd, lnk) ==
    with_sent(st, cmd, send_to_all(cmd, st.connections, st.conn_dict, lnk,
                                   st.wire_out, st.role_q))
\* st after GBY's call of close_connection(connection=to_close) that did cl
with_closed(st, to_close, cl) ==
    IF to_close = "none" THEN st
    ELSE [st EXCEPT !.connections = cl.connections,
                    !.conn_dict = cl.conn_dict,
                    !.closes = @ \cup {Closed(to_close, "GBY", cl.raised)}]
closed_by(st, to_close) ==
    with_closed(st, to_close,
                close_connection(st.connections, st.conn_dict, to_close))

\* the method of MasterComms for one code; st = [raised, connections,
\* conn_dict, wire_out, role_q, calls, call_raised, closes, called, dark].
\* HLO replies through send_to_all, whose exception is HLO's; GBY catches
\* every Exception of close_connection; DXT passes an EXT with the source's
\* identity to send_to_all; DKC, DFC, DKS and DFS keep self.dark_capture; the
\* other codes change nothing here
handle_key(key, value, cmd_source, lnk, st) ==
    IF key = "HLO" /\ Truthy(value)
    THEN sent_by(st, send_tagged(MasId, <<Pair("HLM", PyBool(FALSE)),
                                         Pair("DST", cmd_source)>>), lnk)
    ELSE IF key = "GBY"
    THEN closed_by(st, gby_target(st.connections, st.conn_dict, value, cmd_source))
    ELSE IF key = "DXT"
    THEN sent_by(st, <<Pair("IDN", cmd_source), Pair("EXT", value)>>, lnk)
    ELSE IF key \in {"DKC", "DFC", "DKS", "DFS"}
    THEN [st EXCEPT !.dark = dark_capture_after(@, key, value, IdOf(cmd_source))]
    ELSE st

\* for key in self.comm_cmd of _handle_commands: the AttributeError of a code
\* without a method (handle_key does nothing for it) and an AttributeError out
\* of a method are swallowed (continue), any other exception leaves the loop;
\* called lists the codes the loop has come to
RECURSIVE dispatch(_, _, _, _, _)
\* the loop after the method of code i has left st1
dispatch_on(cmd, i, cmd_source, lnk, st1) ==
    IF st1.raised \notin {"none", "AttributeError"} THEN st1
    ELSE dispatch(cmd, i + 1, cmd_source, lnk, [st1 EXCEPT !.raised = "none"])
dispatch(cmd, i, cmd_source, lnk, st) ==
    IF i > Len(cmd) THEN st
    ELSE dispatch_on(cmd, i, cmd_source, lnk,
             handle_key(cmd[i].k, cmd[i].v, cmd_source, lnk,
                        [st EXCEPT !.called = Append(@, cmd[i].k)]))

\* _handle_commands of MasterComms takes a command set without EXT or RST
\* from its queue and dispatches its codes; an exception that is not
\* swallowed ends the thread (working stays set)
MasDispatch ==
    /\ mas_pc = "idle"
    /\ role_q["MAS"] # <<>>
    /\ \E cmd \in {Head(role_q["MAS"])} :
       \E st \in {dispatch(cmd, 1,
                     IF Has(cmd, "IDN") THEN Get(cmd, "IDN") ELSE PyStr(<<"NSR">>),
                     link,
                     [raised |-> "none", connections |-> connections,
                      conn_dict |-> conn_dict, wire_out |-> wire_out,
                      role_q |-> [role_q EXCEPT !["MAS"] = Tail(@)],
                      calls |-> calls, call_raised |-> call_raised,
                      closes |-> closes, called |-> <<>>,
                      dark |-> mas_dark_capture])} :
           /\ ~Has(cmd, "EXT") /\ ~Has(cmd, "RST")
           /\ mas_dark_capture' = st.dark
           /\ connections' = st.connections
           /\ conn_dict' = st.conn_dict
           /\ wire_out' = st.wire_out
           /\ role_q' = st.role_q
           /\ calls' = st.calls
           /\ call_raised' = st.call_raised
           /\ closes' = st.closes
           /\ handled' = Append(handled, [cmd |-> cmd, called |-> st.called,
                                          raised |-> st.raised])
           /\ mas_pc' = IF st.raised = "none" THEN "idle" ELSE "dead"
    /\ UNCHANGED <<link, mas_event, mas_working, listen_open, close_tried, wait_at,
                   time_wait>>
    /\ UNCHANGED codec_vars
    /\ UNCHANGED cam_vars
    /\ UNCHANGED <<accepting, acc, pending, sock_open, main_pc>>
    /\ UNCHANGED recv_vars
    /\ UNCHANGED <<dev, dev_log, client, main>>

DispatchNext == Forward \/ PeerGoesAway \/ MasDispatch

SpecDispatch == RouteInit /\ [][DispatchNext]_vars

-----------------------------------------------------------------------------
(* Device roles: the handler threads of the two CamComms (CM1 on band, CM2 *)
(* off band) and of SpecComms, which take what send_to_all queued for them *)
(* and reply through send_tagged_comms                                     *)

\* camera.band of the CamComms whose identity is r
band(r) == IF r = "CM1" THEN "on" ELSE "off"

DevId(r) == <<Pair("IDN", PyStr(<<r>>))>>

\* the number of command sets the main loop forwards to the device roles
MaxDevCmds == 1

\* command sets of a client that the main loop forwards: a shutter speed for
\* camera A, the dark sequence of the cameras, a type of spectrum, the exit,
\* the exit with a shutter speed after it
DevCmds ==
    {<<Pair("IDN", PyStr(<<"EXN">>)), Pair("SSA", PyInt(100))>>,
     <<Pair("IDN", PyStr(<<"EXN">>)), Pair("DKC", PyBool(TRUE))>>,
     <<Pair("IDN", PyStr(<<"EXN">>)), Pair("TPS", PyStr(<<"Dark">>))>>,
     <<Pair("IDN", PyStr(<<"EXN">>)), Pair("EXT", PyBool(TRUE))>>,
     <<Pair("IDN", PyStr(<<"EXN">>)), Pair("EXT", PyBool(TRUE)),
       Pair("SSA", PyInt(100))>>}

\* of the codes that reach a device role here (those of DevCmds and of the
\* replies to them), the ones its class has a method for
DevHandlers(r) ==
    {"IDN", "DST", "EXT"}
        \cup (IF r = "SPE" THEN {"TPS", "DKS"} ELSE {"SSA", "DKC"})
\* the methods of CamComms and SpecComms among them (IDN and DST are the
\* empty methods of CommsFuncs)
DevOwn == {"SSA", "DKC", "DKS", "TPS", "EXT"}

\* send_tagged_comms(comm) of role r inside a method: one call of
\* send_to_all, whose exception is the caller's.  st = [raised, connections,
\* conn_dict, wire_out, role_q, calls, call_raised, closes, event, auto_ss,
\* replies, invoked]
dev_send(r, comm, lnk, st) ==
    [sent_by(st, send_tagged(DevId(r), comm), lnk) EXCEPT
        !.replies = Append(@, comm)]

\* comm | {"DST": cmd_source}
to_source(comm, cmd_source) == Merge(comm, <<Pair("DST", cmd_source)>>)
err(code) == <<Pair("ERR", PyStr(<<code>>))>>

\* the method of role r for one code (the setters of the camera object and
\* its capture queue are taken not to fail, the dark sequence to be done when
\* DKC has waited for it, the capture thread to end when EXT joins it).
\* SSA acts on band only and refuses under auto shutter speed; DKC (DKS of
\* the spectrometer) announces the sequence inside its try,
\* whose bare except turns a failed send into the error reply; TPS sends
\* nothing; EXT sets the event and replies without a destination
\* DKC (DKS) after its first send has left s1: the bare except, or the
\* sequence and the reply at its end
dark_sequence(r, key, lnk, s1) ==
    IF s1.raised # "none"
    THEN dev_send(r, err(key), lnk, [s1 EXCEPT !.raised = "none"])
    ELSE dev_send(r, <<Pair(IF key = "DKC" THEN "DFC" ELSE "DFS", PyInt(1))>>,
                  lnk, s1)

dev_method(r, key, value, cmd_source, lnk, st) ==
    IF key = "SSA"
    THEN IF band(r) # "on" THEN st
         ELSE dev_send(r, to_source(IF ~st.auto_ss THEN <<Pair("SSA", value)>>
                                    ELSE err("SSA"), cmd_source), lnk, st)
    ELSE IF key \in {"DKC", "DKS"}
    THEN IF ~Truthy(value) THEN dev_send(r, err(key), lnk, st)
         ELSE dark_sequence(r, key, lnk,
                  dev_send(r, to_source(<<Pair(key, PyInt(1))>>, cmd_source),
                           lnk, st))
    ELSE IF key = "EXT"
    THEN IF Truthy(value)
         THEN dev_send(r, <<Pair("EXT", PyBool(FALSE))>>, lnk,
                       [st EXCEPT !.event = TRUE])
         ELSE dev_send(r, err("EXT"), lnk, st)
    ELSE st

\* for key in self.comm_cmd of _handle_commands in a device role: a code
\* without a method is passed over (AttributeError, continue), as is an
\* AttributeError out of a method; any other exception leaves the loop.
\* invoked lists the methods called: [code, value, replies]
RECURSIVE dev_dispatch(_, _, _, _, _, _)
\* the loop after the method of code i has left st1
dev_dispatch_on(r, cmd, i, cmd_source, lnk, st1) ==
    IF st1.raised \notin {"none", "AttributeError"}
    THEN [st1 EXCEPT !.invoked =
             Append(@, [code |-> cmd[i].k, value |-> cmd[i].v,
                        replies |-> st1.replies])]
    ELSE dev_dispatch(r, cmd, i + 1, cmd_source, lnk,
             [st1 EXCEPT !.raised = "none",
                         !.invoked =
                             Append(@, [code |-> cmd[i].k, value |-> cmd[i].v,
                                        replies |-> st1.replies])])
dev_dispatch(r, cmd, i, cmd_source, lnk, st) ==
    IF i > Len(cmd) THEN st
    ELSE IF cmd[i].k \notin DevHandlers(r)
    THEN dev_dispatch(r, cmd, i + 1, cmd_source, lnk, st)
    ELSE dev_dispatch_on(r, cmd, i, cmd_source, lnk,
             dev_method(r, cmd[i].k, cmd[i].v, cmd_source, lnk,
                        [st EXCEPT !.replies = <<>>]))

\* the main loop: sock_serv_ext.send_to_all(comm_cmd) for a client's command
DevForward ==
    /\ Len(SelectSeq(calls, LAMBDA c : StrEq(Get(c, "IDN"), "EXN"))) < MaxDevCmds
    /\ \E cmd \in DevCmds :
        \E s \in {send_to_all(cmd, connections, conn_dict, link, wire_out, role_q)} :
            /\ connections' = s.connections
            /\ conn_dict' = s.conn_dict
            /\ wire_out' = s.wire_out
            /\ role_q' = s.role_q
            /\ calls' = Append(calls, cmd)
            /\ call_raised' = Append(call_raised, s.raised)
            /\ closes' = closes \cup s.closes
    /\ UNCHANGED link
    /\ UNCHANGED codec_vars
    /\ UNCHANGED cam_vars
    /\ UNCHANGED <<accepting, acc, pending, sock_open, main_pc>>
    /\ UNCHANGED recv_vars
    /\ UNCHANGED shut_vars
    /\ UNCHANGED proc_vars

\* one pass of the while loop of _handle_commands in role r: the event is
\* not set, a command set is taken from the queue and its codes dispatched;
\* an exception that is not swallowed ends the thread where it is
DevTake(r) ==
    /\ dev[r].pc = "run"
    /\ ~dev[r].event
    /\ role_q[r] # <<>>
    /\ \E cmd \in {Head(role_q[r])} :
       \E st \in {dev_dispatch(r, cmd, 1,
                     IF Has(cmd, "IDN") THEN Get(cmd, "IDN") ELSE PyStr(<<"NSR">>),
                     link,
                     [raised |-> "none", connections |-> connections,
                      conn_dict |-> conn_dict, wire_out |-> wire_out,
                      role_q |-> [role_q EXCEPT ![r] = Tail(@)],
                      calls |-> calls, call_raised |-> call_raised,
                      closes |-> closes, event |-> FALSE,
                      auto_ss |-> dev[r].auto_ss, replies |-> <<>>,
                      invoked |-> <<>>])} :
           /\ connections' = st.connections
           /\ conn_dict' = st.conn_dict
           /\ wire_out' = st.wire_out
           /\ role_q' = st.role_q
           /\ calls' = st.calls
           /\ call_raised' = st.call_raised
           /\ closes' = st.closes
           /\ dev' = [dev EXCEPT ![r] =
                        [pc |-> IF st.raised = "none" THEN "run" ELSE "dead",
                         event |-> st.event, working |-> TRUE,
                         auto_ss |-> st.auto_ss]]
           /\ dev_log' = Append(dev_log, [role |-> r, cmd |-> cmd,
                                          invoked |-> st.invoked,
                                          raised |-> st.raised])
    /\ UNCHANGED link
    /\ UNCHANGED <<client, mas_dark_capture, main>>
    /\ UNCHANGED codec_vars
    /\ UNCHANGED cam_vars
    /\ UNCHANGED <<accepting, acc, pending, sock_open, main_pc>>
    /\ UNCHANGED recv_vars
    /\ UNCHANGED shut_vars

DevHandle == \E r \in DevRoles : DevTake(r)

\* the while loop of _handle_commands in role r finds the event set: the
\* loop is left and working cleared
DevLoopExit(r) ==
    /\ dev[r].pc = "run"
    /\ dev[r].event
    /\ dev' = [dev EXCEPT ![r].pc = "stopped", ![r].working = FALSE]
    /\ UNCHANGED <<dev_log, client, mas_dark_capture, main>>
    /\ UNCHANGED codec_vars
    /\ UNCHANGED cam_vars
    /\ UNCHANGED server_vars
    /\ UNCHANGED acc_vars
    /\ UNCHANGED recv_vars
    /\ UNCHANGED shut_vars

DevExit == \E r \in DevRoles : DevLoopExit(r)

\* the server with one client registered and the three device roles' handler
\* threads in their loops, camera A with auto shutter speed or without
DevInit ==
    /\ CodecIdle
    /\ CamIdle
    /\ RecvIdle
    /\ ShutIdle
    /\ connections = <<"p1">>
    /\ conn_dict = Registered(connections, [p \in Peers |-> "EXN"])
    /\ link = [p \in Peers |-> "up"]
    /\ wire_out = NoWrites
    /\ role_q = EmptyQueues
    /\ calls = <<>>
    /\ call_raised = <<>>
    /\ AccIdle
    /\ \E a \in BOOLEAN :
        dev = [r \in DevRoles |->
                 [pc |-> "run", event |-> FALSE, working |-> TRUE,
                  auto_ss |-> (r = "CM1" /\ a)]]
    /\ dev_log = <<>>
    /\ ClientIdle
    /\ MainIdle

DevNext == DevForward \/ PeerGoesAway \/ DevHandle \/ DevExit

SpecDevice == DevInit /\ [][DevNext]_vars

\* command sets of a peer that names an identity itself (the receive thread
\* tags a set only when it has no IDN): the dark sequence asked in the name
\* of CM2, a shutter speed in the name of CM2, and the client's own
DeclaredCmds ==
    {<<Pair("IDN", PyStr(<<"CM2">>)), Pair("DKC", PyBool(TRUE))>>,
     <<Pair("IDN", PyStr(<<"CM2">>)), Pair("SSA", PyInt(100))>>,
     <<Pair("IDN", PyStr(<<"EXN">>)), Pair("DKC", PyBool(TRUE))>>}
\* the command sets the handler threads take before the model stops
\* following them
MaxExchange == 6

\* the main loop forwards the one command set of the peer
DeclaredForward ==
    /\ calls = <<>>
    /\ \E cmd \in DeclaredCmds :
        \E s \in {send_to_all(cmd, connections, conn_dict, link, wire_out, role_q)} :
            /\ connections' = s.connections
            /\ conn_dict' = s.conn_dict
            /\ wire_out' = s.wire_out
            /\ role_q' = s.role_q
            /\ calls' = Append(calls, cmd)
            /\ call_raised' = Append(call_raised, s.raised)
            /\ closes' = closes \cup s.closes
    /\ UNCHANGED link
    /\ UNCHANGED codec_vars
    /\ UNCHANGED cam_vars
    /\ UNCHANGED <<accepting, acc, pending, sock_open, main_pc>>
    /\ UNCHANGED recv_vars
    /\ UNCHANGED shut_vars
    /\ UNCHANGED proc_vars

DevHandleSome == Len(dev_log) < MaxExchange /\ DevHandle
DeclaredNext == DeclaredForward \/ DevHandleSome
SpecDeclared == DevInit /\ [][DeclaredNext]_vars

\* a handler thread that finds its event set is scheduled and leaves its loop
SpecDeviceFair ==
    /\ DevInit
    /\ [][DevNext]_vars
    /\ \A r \in DevRoles : WF_vars(DevLoopExit(r))

-----------------------------------------------------------------------------
(* Dark capture: the main loop of pycam_master2.py with its signal handler *)
(* and its dark_capture flag, MasterComms keeping self.dark_capture, and   *)
(* the device roles running their dark sequences                           *)

\* the number of command sets the main loop takes from its clients, and of
\* signals the process gets
MaxDarkCmds == 2
MaxSignals == 1

Signals == {"SIGINT", "SIGTERM", "SIGUSR1"}

\* what a client may send: the dark sequences, the exit, the exit with a
\* status request, the forced exit, the restart
dark_client_cmd ==
    <<Pair("IDN", PyStr(<<"EXN">>)), Pair("DKC", PyBool(TRUE)),
      Pair("DKS", PyBool(TRUE))>>
DarkCmds ==
    {dark_client_cmd,
     <<Pair("IDN", PyStr(<<"EXN">>)), Pair("EXT", PyBool(TRUE))>>,
     <<Pair("IDN", PyStr(<<"EXN">>)), Pair("EXT", PyBool(TRUE)),
       Pair("LOG", PyInt(0))>>,
     <<Pair("IDN", PyStr(<<"EXN">>)), Pair("DXT", PyBool(TRUE))>>,
     <<Pair("IDN", PyStr(<<"EXN">>)), Pair("RST", PyBool(TRUE))>>}

\* dark_capt_cmd, and the command of signal_handler
dark_capt_cmd ==
    <<Pair("DKC", PyInt(1)), Pair("DKS", PyInt(1)), Pair("IDN", PyStr(<<"MAS">>))>>
signal_cmd == <<Pair("IDN", PyStr(<<"NUL">>)), Pair("EXT", PyInt(1))>>

\* value == 1
IsOne(v) == v.ty \in {"bool", "int"} /\ v.n = 1
\* key in comm_cmd and comm_cmd[key]
IsSet(cmd, key) == Has(cmd, key) /\ Truthy(Get(cmd, key))

\* running = False, noted with its cause and whether dark capture was on
Stopped(m, by) ==
    [m EXCEPT !.running = FALSE,
              !.stops = @ \cup {[by |-> by, dark |-> m.dark_capture]}]

\* signal_handler: SIGTERM and SIGINT are refused during dark capture;
\* otherwise running is cleared and the exit passed to send_to_all.
\* [main, sends]: sends is the command sets passed to send_to_all
signal_handler(m, signum) ==
    IF m.dark_capture /\ signum \in {"SIGTERM", "SIGINT"}
    THEN [main |-> m, sends |-> <<>>]
    ELSE [main |-> Stopped(m, signum), sends |-> <<signal_cmd>>]

\* the body of the main loop for one command set taken from a connection's
\* queue: the exit stops the loop unless dark capture is on, when it is
\* deleted from the set (and a set with nothing but IDN left is dropped); DXT
\* and RST stop the loop; what is left is passed to send_to_all; DKC and DKS
\* both 1 turn dark capture on
main_take(m, cmd) ==
    LET exits == IsSet(cmd, "EXT") /\ ~m.dark_capture
        strip == ~exits /\ m.dark_capture /\ Has(cmd, "EXT")
        cmd1 == IF strip THEN Del(cmd, "EXT") ELSE cmd
        dropped == strip /\ Len(cmd1) = 1 /\ Has(cmd1, "IDN")
        m1 == IF exits THEN Stopped(m, "EXT") ELSE m
        m2 == IF IsSet(cmd1, "DXT") THEN Stopped(m1, "DXT") ELSE m1
        m3 == IF IsSet(cmd1, "RST") THEN Stopped(m2, "RST") ELSE m2
        starts == /\ Has(cmd1, "DKC") /\ Has(cmd1, "DKS")
                  /\ IsOne(Get(cmd1, "DKC")) /\ IsOne(Get(cmd1, "DKS"))
    IN  IF dropped THEN [main |-> m, sends |-> <<>>]
        ELSE [main |-> [m3 EXCEPT
                          !.dark_capture = @ \/ starts,
                          !.dxt_in_dark = @ \/ (m.dark_capture /\ IsSet(cmd1, "DXT")),
                          !.fwd_in_dark = IF m.dark_capture /\ cmd1 # <<>>
                                          THEN Append(@, cmd1) ELSE @],
              sends |-> IF cmd1 # <<>> THEN <<cmd1>> ELSE <<>>]

\* the end of the main loop's body: while dark capture is on, it is what
\* any() of MasterComms' flags gives; when that ends a run started with -d,
\* SIGINT is raised
any_flag(flags) == \E k \in DOMAIN flags : flags[k]
main_aggregate(m, flags) ==
    IF ~m.dark_capture THEN [main |-> m, sends |-> <<>>]
    ELSE LET m1 == [m EXCEPT !.dark_capture = any_flag(flags)]
         IN  IF ~m1.dark_capture /\ m1.dark_capture_launch
             THEN signal_handler(m1, "SIGINT")
             ELSE [main |-> m1, sends |-> <<>>]

\* the main thread has done r: main is r.main, and the command sets of
\* r.sends (none or one) have been passed to send_to_all, whose exception
\* nothing in the main loop catches
MainDoes(r) ==
    /\ IF r.sends = <<>>
       THEN /\ main' = r.main
            /\ UNCHANGED <<connections, conn_dict, wire_out, role_q, calls,
                           call_raised, closes, main_pc>>
       ELSE \E s \in {send_to_all(r.sends[1], connections, conn_dict, link,
                                  wire_out, role_q)} :
                /\ connections' = s.connections
                /\ conn_dict' = s.conn_dict
                /\ wire_out' = s.wire_out
                /\ role_q' = s.role_q
                /\ calls' = Append(calls, r.sends[1])
                /\ call_raised' = Append(call_raised, s.raised)
                /\ closes' = closes \cup s.closes
                /\ main_pc' = IF s.raised = "none" THEN main_pc ELSE "crashed"
                /\ main' = IF s.raised = "none" THEN r.main
                           ELSE [r.main EXCEPT !.at = "exited"]
    /\ UNCHANGED link
    /\ UNCHANGED <<dev, dev_log, client, mas_dark_capture>>
    /\ UNCHANGED codec_vars
    /\ UNCHANGED cam_vars
    /\ UNCHANGED <<accepting, acc, pending, sock_open>>
    /\ UNCHANGED recv_vars
    /\ UNCHANGED shut_vars

\* "Send off the command line arguments": with -d the dark sequences are
\* asked of the device roles
MainStart ==
    /\ main.at = "start"
    /\ MainDoes([main |-> [main EXCEPT !.at = "while"],
                 sends |-> IF main.dark_capture THEN <<dark_capt_cmd>> ELSE <<>>])

\* while running
MainWhile ==
    /\ main.at = "while"
    /\ MainDoes([main |-> [main EXCEPT !.at = IF main.running THEN "c1" ELSE "exited"],
                 sends |-> <<>>])

\* for conn in ext_connections: the queue of the connection is empty, or
\* holds a command set of its client, one of cmds
MainSlotOf(cmds) ==
    /\ main.at \in {"c1", "c2"}
    /\ LET next == IF main.at = "c1" THEN "c2" ELSE "aggregate"
       IN  \/ MainDoes([main |-> [main EXCEPT !.at = next], sends |-> <<>>])
           \/ /\ main.taken < MaxDarkCmds
              /\ \E cmd \in cmds :
                    LET r == main_take(main, cmd)
                    IN  MainDoes([r EXCEPT !.main.at = next,
                                           !.main.taken = main.taken + 1])

MainSlot == MainSlotOf(DarkCmds)
\* the client asks for the dark sequences, when none is running, and for
\* nothing else
MainSlotDark ==
    MainSlotOf(IF main.dark_capture THEN {} ELSE {dark_client_cmd})

\* "If dark capture is running, check for if it's finished"
MainAggregate ==
    /\ main.at = "aggregate"
    /\ LET r == main_aggregate(main, mas_dark_capture)
       IN  MainDoes([r EXCEPT !.main.at = "while"])

\* the process gets a signal while the script has not ended
Signal ==
    /\ main.at # "exited"
    /\ main.signals < MaxSignals
    /\ \E signum \in Signals :
          LET r == signal_handler(main, signum)
          IN  MainDoes([r EXCEPT !.main.signals = main.signals + 1])

\* the device roles whose handler threads get to run while the others are
\* inside a method (a dark sequence takes the thread until it is done)
DevSchedules == {{"CM1"}, {"SPE"}}

\* the server with one client registered, MasterComms' handler thread in its
\* loop and those of the device roles of sched, the script before its main
\* loop, started with -d or without
DarkInitOf(scheds) ==
    /\ CodecIdle
    /\ CamIdle
    /\ RecvIdle
    /\ ShutIdle
    /\ connections = <<"p1">>
    /\ conn_dict = Registered(connections, [p \in Peers |-> "EXN"])
    /\ link = [p \in Peers |-> "up"]
    /\ wire_out = NoWrites
    /\ role_q = EmptyQueues
    /\ calls = <<>>
    /\ call_raised = <<>>
    /\ AccIdle
    /\ \E sched \in scheds :
          dev = [r \in DevRoles |->
                   [pc |-> IF r \in sched THEN "run" ELSE "none",
                    event |-> FALSE, working |-> TRUE, auto_ss |-> FALSE]]
    /\ dev_log = <<>>
    /\ ClientIdle
    /\ mas_dark_capture = NoDark
    /\ \E d \in BOOLEAN : main = MainAt(d)

\* the script with its signals and MasterComms, the device roles not run
DarkInit == DarkInitOf({{}})
DarkNext ==
    \/ MainStart \/ MainWhile \/ MainSlot \/ MainAggregate \/ Signal
    \/ MasDispatch \/ MasHandle
SpecDark == DarkInit /\ [][DarkNext]_vars

\* the script, MasterComms and the device roles in their dark sequences
DarkTrackInit == DarkInitOf(DevSchedules)
DarkTrackNext ==
    \/ MainStart \/ MainWhile \/ MainSlotDark \/ MainAggregate
    \/ MasDispatch \/ MasHandle \/ DevHandle
SpecDarkTrack == DarkTrackInit /\ [][DarkTrackNext]_vars

\* the script started with -d up to the sleep that follows its request, and
\* the handler threads of MasterComms and of all three device roles
DarkLaunchInit == DarkInitOf({DevRoles}) /\ main.dark_capture_launch
DarkLaunchNext == MainStart \/ MasDispatch \/ DevHandle
SpecDarkLaunch == DarkLaunchInit /\ [][DarkLaunchNext]_vars

-----------------------------------------------------------------------------
(* Acceptance: peers connect, the acceptance thread of a slot accepts one, *)
(* reads its handshake and registers it, the receive thread takes over,    *)
(* and the main loop sets a slot whose threads have ended to accept again  *)

\* the handshake a client writes first: its identity
Hello(id) == <<"IDN", " ", id, " ">>

\* what each peer declares
HelloOf == [p \in Peers |-> IF p = "p1" THEN "EXN" ELSE "CM1"]

\* the server listening, both slots in accept(), and the given peers
\* connected, in the order accept() will return them
AcceptInitOf(queue) ==
    /\ CodecIdle
    /\ CamIdle
    /\ ShutIdle
    /\ ProcIdle
    /\ ServerIdle
    /\ data_buff = <<>>
    /\ pending = queue
    /\ sent = [p \in Peers |->
                 IF \E i \in DOMAIN pending : pending[i] = p
                 THEN <<Hello(HelloOf[p])>> ELSE <<>>]
    /\ peer_out = [p \in Peers |-> StreamOf(sent[p])]
    /\ wire_in = [p \in Peers |-> <<>>]
    /\ peer_eof = [p \in Peers |-> FALSE]
    /\ slot_conn = [sl \in Slots |-> "none"]
    /\ slot_id = [sl \in Slots |-> "none"]
    /\ working = [sl \in Slots |-> FALSE]
    /\ wk = [sl \in Slots |-> [pc |-> "none", ii |-> 0]]
    /\ slot_q = [sl \in Slots |-> <<>>]
    /\ frames_got = [sl \in Slots |-> <<>>]
    /\ last_ret = [sl \in Slots |-> "none"]
    /\ accepting = [sl \in Slots |-> TRUE]
    /\ acc = [sl \in Slots |-> [pc |-> "accept", ii |-> 0, conn |-> "none"]]
    /\ sock_open = {}
    /\ closes = {}
    /\ main_pc = "run"

\* self.conn_dict[(ip, port)] = connection, conn_id
register(cdict, c, conn_id) ==
    [a \in DOMAIN cdict \cup {Addr(c)} |->
        IF a = Addr(c) THEN [conn |-> c, id |-> conn_id] ELSE cdict[a]]

\* the acceptance thread of a slot after accept(): one pass of the loop of
\* recv_comms for the handshake and, when the call returns, the rest of
\* acc_connection and of _acc_connection.  Every exception (the hang-up, a
\* ValueError of decode_comms, the KeyError of a handshake without IDN or of
\* the empty text recv_comms returns after its five passes) ends in
\* (None, None) and accepting = False, the connection still in the list;
\* else the identity is registered, the slot takes the connection and its
\* receive thread is started unless working is already set
AccHandshake(sl) ==
    LET c == acc[sl].conn
        r == recv_pass(data_buff, wire_in[c], peer_eof[c])
        returned == r.outcome = "frame" \/ (r.outcome = "again" /\ acc[sl].ii + 1 = PollBudget)
        dec == decode_comms(r.ret, FALSE, TRUE)
        ok == r.outcome # "ConnectionResetError" /\ returned /\ ~dec.raised
                /\ Has(dec.ret, "IDN")
        off == [pc |-> "none", ii |-> 0, conn |-> "none"]
    IN  /\ acc[sl].pc = "handshake"
        /\ data_buff' = r.data_buff
        /\ wire_in' = IF r.taken THEN [wire_in EXCEPT ![c] = <<>>] ELSE wire_in
        /\ IF r.outcome = "again" /\ ~returned
           THEN /\ acc' = [acc EXCEPT ![sl].ii = @ + 1]
                /\ UNCHANGED <<accepting, conn_dict, slot_conn, slot_id, working, wk>>
           ELSE IF ~ok
           THEN /\ acc' = [acc EXCEPT ![sl] = off]
                /\ accepting' = [accepting EXCEPT ![sl] = FALSE]
                /\ slot_id' = [slot_id EXCEPT ![sl] = "none"]
                /\ UNCHANGED <<conn_dict, slot_conn, working, wk>>
           ELSE /\ acc' = [acc EXCEPT ![sl] = off]
                /\ accepting' = [accepting EXCEPT ![sl] = FALSE]
                /\ conn_dict' = register(conn_dict, c, Get(dec.ret, "IDN").s[1])
                /\ slot_conn' = [slot_conn EXCEPT ![sl] = c]
                /\ slot_id' = [slot_id EXCEPT ![sl] = Get(dec.ret, "IDN").s[1]]
                /\ IF working[sl]
                   THEN UNCHANGED <<working, wk>>
                   ELSE /\ working' = [working EXCEPT ![sl] = TRUE]
                        /\ wk' = [wk EXCEPT ![sl] = [pc |-> "recv", ii |-> 0]]
        /\ UNCHANGED <<sent, peer_out, peer_eof, slot_q, frames_got, last_ret>>
        /\ UNCHANGED <<connections, link, wire_out, role_q, calls, call_raised>>
        /\ UNCHANGED <<pending, sock_open, closes, main_pc>>
        /\ UNCHANGED codec_vars
        /\ UNCHANGED cam_vars
        /\ UNCHANGED shut_vars
        /\ UNCHANGED proc_vars

Handshake == \E sl \in Slots : AccHandshake(sl)

\* the main loop of pycam_master2.py for a slot that is neither working nor
\* accepting: close its connection if it has one whose socket is open (only
\* socket.error is caught there), then acc_connection()
rearm(sl) ==
    LET c == slot_conn[sl]
        cl == close_connection(connections, conn_dict, c)
        closing == c # "none" /\ c \in sock_open
    IN  /\ IF closing /\ cl.raised # "none"
           THEN /\ main_pc' = "crashed"
                /\ closes' = closes \cup {Closed(c, "main", cl.raised)}
                /\ UNCHANGED <<connections, conn_dict, accepting, acc>>
           ELSE /\ connections' = IF closing THEN cl.connections ELSE connections
                /\ conn_dict' = IF closing THEN cl.conn_dict ELSE conn_dict
                /\ closes' = IF closing THEN closes \cup {Closed(c, "main", cl.raised)}
                              ELSE closes
                /\ accepting' = [accepting EXCEPT ![sl] = TRUE]
                /\ acc' = [acc EXCEPT ![sl] = [pc |-> "accept", ii |-> 0, conn |-> "none"]]
                /\ UNCHANGED main_pc
        /\ UNCHANGED <<pending, sock_open>>
        /\ UNCHANGED <<link, wire_out, role_q, calls, call_raised>>
        /\ UNCHANGED codec_vars
        /\ UNCHANGED cam_vars
        /\ UNCHANGED recv_vars
        /\ UNCHANGED shut_vars

\* the test and the body in one step
RearmSlot(sl) ==
    /\ main_pc = "run"
    /\ ~working[sl] /\ ~accepting[sl]
    /\ rearm(sl)
    /\ UNCHANGED proc_vars

Rearm == \E sl \in Slots : RearmSlot(sl)

\* a local role announces itself to everybody, once:
\* send_tagged_comms of CamComms with id CM1
AnnounceCmd == RouteCmd("CM1", "")
Announce ==
    /\ calls = <<>>
    /\ LET r == send_to_all(AnnounceCmd, connections, conn_dict, link, wire_out, role_q)
       IN  /\ connections' = r.connections
           /\ conn_dict' = r.conn_dict
           /\ wire_out' = r.wire_out
           /\ role_q' = r.role_q
           /\ calls' = Append(calls, AnnounceCmd)
           /\ call_raised' = Append(call_raised, r.raised)
           /\ closes' = closes \cup r.closes
    /\ UNCHANGED link
    /\ UNCHANGED codec_vars
    /\ UNCHANGED cam_vars
    /\ UNCHANGED <<accepting, acc, pending, sock_open, main_pc>>
    /\ UNCHANGED recv_vars
    /\ UNCHANGED shut_vars
    /\ UNCHANGED proc_vars

AcceptNext ==
    Accept \/ Handshake \/ Worker \/ DeliverChunk \/ PeerCloses \/ Rearm \/ Announce

\* one client
AcceptInit == AcceptInitOf(<<"p1">>)
SpecAccept == AcceptInit /\ [][AcceptNext]_vars

\* the main loop keeps running: a slot it finds neither working nor
\* accepting is set to accept again.  (What follows the end of a receive
\* thread depends on the main loop alone.)
SpecAcceptFair ==
    /\ AcceptInit
    /\ [][AcceptNext]_vars
    /\ \A sl \in Slots : WF_vars(RearmSlot(sl))

\* two clients
AcceptTwoInit == AcceptInitOf(<<"p1", "p2">>)
SpecAcceptTwo == AcceptTwoInit /\ [][AcceptNext]_vars

\* the test of the main loop as the interpreter runs it: "not working" is
\* evaluated first, and "not accepting" only when it was true; the slot's
\* acceptance thread runs in between.  main.at holds the slot under test
RearmAt(sl) == "rearm " \o sl
RearmTestWorking(sl) ==
    /\ main_pc = "run"
    /\ main.at = "start"
    /\ ~working[sl]
    /\ main' = [main EXCEPT !.at = RearmAt(sl)]
    /\ UNCHANGED <<dev, dev_log, client, mas_dark_capture>>
    /\ UNCHANGED codec_vars
    /\ UNCHANGED cam_vars
    /\ UNCHANGED server_vars
    /\ UNCHANGED recv_vars
    /\ UNCHANGED shut_vars
    /\ UNCHANGED acc_vars
RearmTestAccepting(sl) ==
    /\ main_pc = "run"
    /\ main.at = RearmAt(sl)
    /\ main' = [main EXCEPT !.at = "start"]
    /\ IF ~accepting[sl]
       THEN rearm(sl)
       ELSE /\ UNCHANGED codec_vars
            /\ UNCHANGED cam_vars
            /\ UNCHANGED server_vars
            /\ UNCHANGED recv_vars
            /\ UNCHANGED shut_vars
            /\ UNCHANGED acc_vars
    /\ UNCHANGED <<dev, dev_log, client, mas_dark_capture>>
RearmTest == \E sl \in Slots : RearmTestWorking(sl) \/ RearmTestAccepting(sl)

HandoffNext ==
    Accept \/ Handshake \/ Worker \/ DeliverChunk \/ PeerCloses \/ RearmTest
SpecHandoff == AcceptInit /\ [][HandoffNext]_vars


-----------------------------------------------------------------------------
(* The client: a SocketClient, the thread connect_socket_timeout starts to *)
(* connect, and the caller, which is connect_socket_timeout on its own or  *)
(* connect_socket_try_all over the list of ports                           *)

\* SocketClient.timeout, in the steps of the caller's clock
client_timeout == 5

\* the candidate ports
port_list == <<12345, 12346>>
PortSet == {port_list[i] : i \in DOMAIN port_list}

\* what a port of the host does with a connection request: it accepts and
\* reads, it refuses, or it accepts and resets the connection at once
PortKinds == {"listen", "refuse", "reset"}

\* send_handshake: encode_comms(self.id) for the default identity
handshake_msg == encode_comms(<<Pair("IDN", PyStr(<<"EXN">>))>>)

\* a socket object: "open" (not connected), "connected" or "closed"; the
\* port it is connected to; the byte strings written to it
NewSock == [state |-> "open", port |-> 0, frames |-> <<>>]

\* open_socket: a new socket object when the present one is closed
open_socket(c) ==
    IF c.socks[c.cur].state = "closed"
    THEN [c EXCEPT !.socks = Append(@, NewSock), !.cur = Len(c.socks) + 1]
    ELSE c

\* close_socket
close_socket(c) ==
    [c EXCEPT !.socks[c.cur].state = "closed", !.connect_stat = FALSE]

\* connect_socket_timeout up to the start of its thread
start_thread(c) ==
    [c EXCEPT !.w = Append(@, [pc |-> "test", event |-> FALSE, s |-> 0, to |-> 0]),
              !.time = 0, !.pc = "wait"]

\* the caller enters: connect_socket_timeout for the address the client was
\* made with, or the next round of the for loop of connect_socket_try_all
\* (close_socket, update_address, connect_socket_timeout), which ends when
\* the list is exhausted
CallerStart ==
    /\ client.pc = "start"
    /\ client' =
         IF client.mode = "connect_socket_timeout"
         THEN start_thread([client EXCEPT !.tried = Append(@, client.port)])
         ELSE IF client.at > Len(port_list)
         THEN [client EXCEPT !.pc = "returned"]
         ELSE start_thread([close_socket(client) EXCEPT
                               !.port = port_list[client.at],
                               !.tried = Append(@, port_list[client.at])])
    /\ UNCHANGED <<dev, dev_log, mas_dark_capture, main>>
    /\ UNCHANGED codec_vars
    /\ UNCHANGED cam_vars
    /\ UNCHANGED server_vars
    /\ UNCHANGED acc_vars
    /\ UNCHANGED recv_vars
    /\ UNCHANGED shut_vars

\* the thread the caller waits for has ended and connect_stat is set
Connected(c) == c.w[Len(c.w)].pc = "done" /\ c.connect_stat

\* the wait loop of connect_socket_timeout finds the thread ended and
\* connect_stat set: return (and break in connect_socket_try_all)
CallerReturn ==
    /\ client.pc = "wait"
    /\ client.time <= client_timeout
    /\ Connected(client)
    /\ client' = [client EXCEPT !.pc = "returned",
                                !.outcome = Append(@, "returned")]
    /\ UNCHANGED <<dev, dev_log, mas_dark_capture, main>>
    /\ UNCHANGED codec_vars
    /\ UNCHANGED cam_vars
    /\ UNCHANGED server_vars
    /\ UNCHANGED acc_vars
    /\ UNCHANGED recv_vars
    /\ UNCHANGED shut_vars

\* time passes while the wait loop spins
CallerTick ==
    /\ client.pc = "wait"
    /\ client.time <= client_timeout
    /\ ~Connected(client)
    /\ client' = [client EXCEPT !.time = @ + 1]
    /\ UNCHANGED <<dev, dev_log, mas_dark_capture, main>>
    /\ UNCHANGED codec_vars
    /\ UNCHANGED cam_vars
    /\ UNCHANGED server_vars
    /\ UNCHANGED acc_vars
    /\ UNCHANGED recv_vars
    /\ UNCHANGED shut_vars

\* the wait loop ends on the clock: event.set() and ConnectionError, which
\* connect_socket_try_all catches to go on to the next port
CallerTimeout ==
    /\ client.pc = "wait"
    /\ client.time > client_timeout
    /\ client' =
         LET c == [client EXCEPT !.w[Len(client.w)].event = TRUE,
                                 !.outcome = Append(@, "raised")]
         IN  IF client.mode = "connect_socket_timeout"
             THEN [c EXCEPT !.pc = "raised"]
             ELSE [c EXCEPT !.pc = "start", !.at = @ + 1]
    /\ UNCHANGED <<dev, dev_log, mas_dark_capture, main>>
    /\ UNCHANGED codec_vars
    /\ UNCHANGED cam_vars
    /\ UNCHANGED server_vars
    /\ UNCHANGED acc_vars
    /\ UNCHANGED recv_vars
    /\ UNCHANGED shut_vars

\* one step of connect_socket in thread i.
\* test: the while condition; the call of connect is made on the socket and
\*   the address the client has at that moment.
\* connect: connect returns.  On a closed socket it raises errno 9: a new
\*   socket is opened and the loop continues.  A refusal (or a socket that is
\*   connected already) raises another OSError, which is raised again, logged
\*   by the outer except, and ends the thread.
\* getsockname: on self.sock as it is now; errno 9 if that one is closed.
\* setstat: connect_stat = True.
\* handshake: send_handshake on self.sock as it is now; its exception is
\*   logged by the outer except and ends the thread, connect_stat as it is
worker_step(c, i) ==
    LET me == c.w[i]
    IN  IF me.pc = "test"
        THEN IF c.connect_stat \/ me.event
             THEN [c EXCEPT !.w[i].pc = "done"]
             ELSE [c EXCEPT !.w[i].pc = "connect", !.w[i].s = c.cur,
                            !.w[i].to = c.port]
        ELSE IF me.pc = "connect"
        THEN IF c.socks[me.s].state = "closed"
             THEN [open_socket(c) EXCEPT !.w[i].pc = "test"]
             ELSE IF c.socks[me.s].state = "connected" \/ c.env[me.to] = "refuse"
             THEN [c EXCEPT !.w[i].pc = "done"]
             ELSE [c EXCEPT !.socks[me.s].state = "connected",
                            !.socks[me.s].port = me.to,
                            !.w[i].pc = "getsockname"]
        ELSE IF me.pc = "getsockname"
        THEN IF c.socks[c.cur].state = "closed"
             THEN [open_socket(c) EXCEPT !.w[i].pc = "test"]
             ELSE [c EXCEPT !.w[i].pc = "setstat"]
        ELSE IF me.pc = "setstat"
        THEN [c EXCEPT !.connect_stat = TRUE, !.w[i].pc = "handshake"]
        ELSE \* handshake
             IF /\ c.socks[c.cur].state = "connected"
                /\ c.env[c.socks[c.cur].port] = "listen"
             THEN [c EXCEPT !.socks[c.cur].frames = Append(@, handshake_msg),
                            !.w[i].pc = "test"]
             ELSE [c EXCEPT !.w[i].pc = "done"]

WorkerStep(i) ==
    /\ client.pc # "none"
    /\ i \in DOMAIN client.w
    /\ client.w[i].pc # "done"
    /\ client' = worker_step(client, i)
    /\ UNCHANGED <<dev, dev_log, mas_dark_capture, main>>
    /\ UNCHANGED codec_vars
    /\ UNCHANGED cam_vars
    /\ UNCHANGED server_vars
    /\ UNCHANGED acc_vars
    /\ UNCHANGED recv_vars
    /\ UNCHANGED shut_vars

ConnectWorker == \E i \in DOMAIN port_list : WorkerStep(i)

\* a client just constructed (a socket open, connect_stat False), its address
\* the first port of the list, about to call mode; each port of the host of
\* one of the kinds
ClientInitOf(modes) ==
    /\ CodecIdle
    /\ CamIdle
    /\ RecvIdle
    /\ ShutIdle
    /\ ServerIdle
    /\ AccIdle
    /\ DevIdle
    /\ MainIdle
    /\ \E mode \in modes, env \in [PortSet -> PortKinds] :
        client = [mode |-> mode, pc |-> "start", at |-> 1, time |-> 0,
                  tried |-> <<>>, outcome |-> <<>>,
                  connect_stat |-> FALSE, port |-> port_list[1],
                  socks |-> <<NewSock>>, cur |-> 1, w |-> <<>>, env |-> env]

ClientNext ==
    CallerStart \/ CallerReturn \/ CallerTick \/ CallerTimeout \/ ConnectWorker

ClientInit == ClientInitOf({"connect_socket_timeout"})
SpecClient == ClientInit /\ [][ClientNext]_vars

TryAllInit == ClientInitOf({"connect_socket_try_all"})
SpecTryAll == TryAllInit /\ [][ClientNext]_vars

-----------------------------------------------------------------------------
(* The codec on its own: bounded inputs, then encode_comms, the framing    *)
(* cut and decode_comms applied to them                                    *)

MaxKeys == 2        \* keys in a generated command set
MaxTokens == 3      \* tokens in a text a peer wrote by hand

\* (key, value) pairs a caller may hand to encode_comms: in-domain values,
\* values on and just outside the bounds, strings with and without blanks
CodecPairs ==
    {Pair("SSA", PyInt(n)) : n \in {0, 1, 6000001, 6000002, 7000000}}
    \cup {Pair("RWC", PyInt(n)) : n \in {-487, -486}}
    \cup {Pair("FRC", PyFloat(t)) : t \in {0, 125, 333, 1000, 1006}}
    \cup {Pair("EXT", PyBool(b)) : b \in BOOLEAN}
    \cup {Pair("IDN", PyStr(<<i>>)) : i \in {"CM1", "EXN", "XYZ"}}
    \cup {Pair("MSG", PyStr(u)) : u \in {<<"hello">>, <<"SSA">>, <<"a", " ", "b">>, <<>>}}
    \cup {Pair("TPA", PyStr(<<w>>)) : w \in {"MSG", "Plume"}}
    \cup {Pair("ERR", PyStr(<<"SSB">>))}

RECURSIVE DictsOfLen(_)
DictsOfLen(n) ==
    IF n = 0 THEN {<<>>}
    ELSE {Append(d, p) : d \in DictsOfLen(n - 1),
                         p \in CodecPairs} 
CodecDicts ==
    {d \in UNION {DictsOfLen(n) : n \in 0..MaxKeys} :
        \A i, j \in DOMAIN d : i # j => d[i].k # d[j].k}

\* tokens of a hand-written text: codes, an unknown code, numbers, junk
RawTokens == {"SSA", "MSG", "ERR", "EXT", "XYZ", "1", "7000000", "abc"}
RECURSIVE TextOf(_)
TextOf(toks) ==
    IF toks = <<>> THEN <<>> ELSE <<Head(toks), " ">> \o TextOf(Tail(toks))
RawTexts ==
    {TextOf(t) : t \in UNION {[1..n -> RawTokens] : n \in 0..MaxTokens}}

CodecInit ==
    /\ ServerIdle
    /\ RecvIdle
    /\ ShutIdle
    /\ AccIdle
    /\ ProcIdle
    /\ CamIdle
    /\ return_errors \in BOOLEAN
    /\ is_server \in BOOLEAN
    /\ dec_out = NoDecode
    /\ \/ /\ codec_pc = "cmd"
          /\ enc_in \in {[given |-> TRUE, cmd |-> d] : d \in CodecDicts}
          /\ message = <<>>
       \/ /\ codec_pc = "text"
          /\ enc_in = [given |-> FALSE, cmd |-> <<>>]
          /\ message \in RawTexts

\* the sender: encode_comms(cmd)
CodecEncode ==
    /\ codec_pc = "cmd"
    /\ message' = encode_comms(enc_in.cmd)
    /\ codec_pc' = "framed"
    /\ UNCHANGED <<enc_in, return_errors, is_server, dec_out>>
    /\ UNCHANGED server_vars
    /\ UNCHANGED recv_vars
    /\ UNCHANGED shut_vars
    /\ UNCHANGED acc_vars
    /\ UNCHANGED proc_vars
    /\ UNCHANGED cam_vars

\* the receiver's cut at the terminator (recv_comms)
CodecUnframe ==
    /\ codec_pc = "framed"
    /\ message' = SubSeq(message, 1, find(message, end_str))
    /\ codec_pc' = "text"
    /\ UNCHANGED <<enc_in, return_errors, is_server, dec_out>>
    /\ UNCHANGED server_vars
    /\ UNCHANGED recv_vars
    /\ UNCHANGED shut_vars
    /\ UNCHANGED acc_vars
    /\ UNCHANGED proc_vars
    /\ UNCHANGED cam_vars

\* the receiver: decode_comms(message, return_errors)
CodecDecode ==
    /\ codec_pc = "text"
    /\ dec_out' = decode_comms(message, return_errors, is_server)
    /\ codec_pc' = "decoded"
    /\ UNCHANGED <<enc_in, message, return_errors, is_server>>
    /\ UNCHANGED server_vars
    /\ UNCHANGED recv_vars
    /\ UNCHANGED shut_vars
    /\ UNCHANGED acc_vars
    /\ UNCHANGED proc_vars
    /\ UNCHANGED cam_vars

CodecNext == CodecEncode \/ CodecUnframe \/ CodecDecode

SpecCodec == CodecInit /\ [][CodecNext]_vars

-----------------------------------------------------------------------------
(* A device object (Camera, Spectrometer), its capture thread and the      *)
(* handler thread of its role (CamComms, SpecComms).  The replies the      *)
(* handlers hand to send_tagged_comms are listed in camera.replies and     *)
(* taken to be sent.                                                       *)

\* the number of commands the handler thread takes
MaxCaptureCmds == 3
\* saturation thresholds in tenths, all inside the codec's ranges of both
\* the minimum ([0.0, 0.9]) and the maximum ([0.1, 1.0])
SatValues == {2, 5, 8, 9}
\* the shutter speed, integration time or framerate a client asks for
NewValue == 2

IsCam(r) == r \in {"CM1", "CM2"}
\* the key of the capture queue for the shutter speed (integration time)
ExposureKey(r) == IF IsCam(r) THEN "ss" ELSE "int_time"
Msg(k, v) == [k |-> k, v |-> v]

\* the object after its construction and interactive_capture(): the capture
\* thread waits at its queue.  shutter_speed stands for int_time in the
\* spectrometer; the thresholds are those of CameraSpecs and SpecSpecs
CameraObject(r) ==
    [role |-> r,
     in_interactive_capture |-> TRUE, continuous_capture |-> FALSE,
     in_dark_capture |-> FALSE, capture_q |-> <<>>,
     shutter_speed |-> 1, framerate |-> 1,
     min_saturation |-> IF IsCam(r) THEN 5 ELSE 7, max_saturation |-> 8,
     capt |-> "get", hand |-> "idle", event |-> FALSE,
     pending |-> [param |-> "none", value |-> 0, code |-> "none"],
     replies |-> <<>>, writes |-> <<>>, sat_log |-> <<>>, taken |-> 0]

\* every other part of the program at rest
CameraAlone ==
    /\ UNCHANGED codec_vars
    /\ UNCHANGED server_vars
    /\ UNCHANGED recv_vars
    /\ UNCHANGED shut_vars
    /\ UNCHANGED acc_vars
    /\ UNCHANGED proc_vars

\* an assignment to shutter_speed (int_time) or framerate, with the thread
\* that makes it and the place of the capture thread at that moment
written(c, param, value, by) ==
    [c EXCEPT ![param] = value,
              !.writes = Append(@, [param |-> param, by |-> by, capt |-> c.capt])]
put(c, k, v) == [c EXCEPT !.capture_q = Append(@, Msg(k, v))]
reply(c, code) == [c EXCEPT !.replies = Append(@, code)]

\* SSA, SSB and SSS up to their test of the capture flag (the cameras test
\* in_interactive_capture, the spectrometer continuous_capture), FRC and FRS
\* likewise with continuous_capture: the request is queued, or the handler
\* goes on to set the attribute itself
set_or_queue(c, code, param, key, flag, value) ==
    IF flag THEN reply(put(c, key, value), code)
    ELSE [c EXCEPT !.hand = "set",
                   !.pending = [param |-> param, value |-> value, code |-> code]]

\* the codes of the capture commands of a role
CaptureCodes(r) ==
    IF IsCam(r) THEN {"STC", "SPC", IF r = "CM1" THEN "SSA" ELSE "SSB", "FRC", "DKC", "EXT"}
    ELSE {"STS", "SPS", "SSS", "FRS", "DKS", "EXT"}

\* the method of the role for one code with a true value, up to the point
\* where it waits or sets an attribute (auto_ss and auto_int are off)
capture_method(c, code) ==
    IF code \in {"STC", "STS"} THEN reply(put(c, "start_cont", 1), code)
    ELSE IF code \in {"SPC", "SPS"} THEN reply(put(c, "exit_cont", 1), code)
    ELSE IF code \in {"SSA", "SSB"}
    THEN set_or_queue(c, code, "shutter_speed", "ss", c.in_interactive_capture, NewValue)
    ELSE IF code = "SSS"
    THEN set_or_queue(c, code, "shutter_speed", "int_time", c.continuous_capture, NewValue)
    ELSE IF code \in {"FRC", "FRS"}
    THEN set_or_queue(c, code, "framerate", "framerate", c.continuous_capture, NewValue)
    ELSE IF code \in {"DKC", "DKS"}
    THEN [reply(put(IF c.continuous_capture THEN put(c, "exit_cont", 1) ELSE c,
                    "dark_seq", 1), code)
             EXCEPT !.hand = "wait_in"]
    ELSE \* EXT: the event, the two requests, the reply, then the join
         [reply(put(put(c, "exit_cont", 0), "exit", 1), code)
             EXCEPT !.event = TRUE, !.hand = "join"]

\* the handler thread takes a command of a client and calls its method
HandlerTake ==
    /\ camera.hand = "idle"
    /\ ~camera.event
    /\ camera.taken < MaxCaptureCmds
    /\ \E code \in CaptureCodes(camera.role) :
        camera' = capture_method([camera EXCEPT !.taken = @ + 1], code)
    /\ CameraAlone

\* the handler thread sets the attribute it found no capture running for
HandlerSet ==
    /\ camera.hand = "set"
    /\ camera' = [reply(written(camera, camera.pending.param, camera.pending.value,
                                "handler"), camera.pending.code)
                    EXCEPT !.hand = "idle"]
    /\ CameraAlone

\* DKC and DKS: while not in_dark_capture: sleep, while in_dark_capture:
\* sleep, then the reply DFC (DFS)
HandlerSeesDark ==
    /\ camera.hand = "wait_in"
    /\ camera.in_dark_capture
    /\ camera' = [camera EXCEPT !.hand = "wait_out"]
    /\ CameraAlone
HandlerDarkFinished ==
    /\ camera.hand = "wait_out"
    /\ ~camera.in_dark_capture
    /\ camera' = [reply(camera, IF IsCam(camera.role) THEN "DFC" ELSE "DFS")
                    EXCEPT !.hand = "idle"]
    /\ CameraAlone

\* EXT: capture_thread.join() returns, and the handler's loop finds its
\* event set
HandlerJoined ==
    /\ camera.hand = "join"
    /\ camera.capt = "exited"
    /\ camera' = [camera EXCEPT !.hand = "stopped"]
    /\ CameraAlone

\* _interactive_capture: one message of the capture queue.  A message with
\* none of the keys exit, ss (int_time), start_cont, dark_seq, type is
\* passed over
CaptGet ==
    /\ camera.capt = "get"
    /\ camera.capture_q # <<>>
    /\ LET m == Head(camera.capture_q)
           c == [camera EXCEPT !.capture_q = Tail(@)]
       IN  camera' =
             IF m.k = "exit" /\ m.v = 1
             THEN [c EXCEPT !.in_interactive_capture = FALSE, !.capt = "exited"]
             ELSE IF m.k = ExposureKey(c.role)
             THEN written(c, "shutter_speed", m.v, "capture")
             ELSE IF m.k = "start_cont"
             THEN [c EXCEPT !.continuous_capture = TRUE, !.capt = "seq_start"]
             ELSE IF m.k = "dark_seq"
             THEN [c EXCEPT !.in_dark_capture = TRUE, !.capt = "dark"]
             ELSE c
    /\ CameraAlone

\* capture_sequence after it has set continuous_capture: the shutter speed
\* (integration time) is set again, and the loop is entered
CaptSequenceStart ==
    /\ camera.capt = "seq_start"
    /\ camera' = [written(camera, "shutter_speed", camera.shutter_speed, "capture")
                    EXCEPT !.capt = "loop"]
    /\ CameraAlone

\* one pass of the loop of capture_sequence that finds a message: exit_cont
\* ends the loop, ss (int_time) and framerate are set, any other message is
\* passed over
CaptSequencePoll ==
    /\ camera.capt = "loop"
    /\ camera.capture_q # <<>>
    /\ LET m == Head(camera.capture_q)
           c == [camera EXCEPT !.capture_q = Tail(@)]
       IN  camera' =
             IF m.k = "exit_cont"
             THEN [c EXCEPT !.continuous_capture = FALSE, !.capt = "get"]
             ELSE IF m.k = ExposureKey(c.role)
             THEN written(c, "shutter_speed", m.v, "capture")
             ELSE IF m.k = "framerate"
             THEN written(c, "framerate", m.v, "capture")
             ELSE c
    /\ CameraAlone

\* capture_darks: the shutter speeds of the list are set one after the
\* other, then in_dark_capture is cleared.  The sequence sleeps a second
\* after every image and a waiting handler looks at the flag twice a second,
\* so a handler that waits for the sequence to begin has seen it before it
\* ends
CaptDarks ==
    /\ camera.capt = "dark"
    /\ camera.hand # "wait_in"
    /\ camera' = [written(camera, "shutter_speed", camera.shutter_speed, "capture")
                    EXCEPT !.in_dark_capture = FALSE, !.capt = "get"]
    /\ CameraAlone

CaptureInit ==
    /\ CodecIdle
    /\ ServerIdle
    /\ RecvIdle
    /\ ShutIdle
    /\ AccIdle
    /\ ProcIdle
    /\ \E r \in DevRoles : camera = CameraObject(r)

CaptureThread == CaptGet \/ CaptSequenceStart \/ CaptSequencePoll \/ CaptDarks
HandlerThread ==
    HandlerTake \/ HandlerSet \/ HandlerSeesDark \/ HandlerDarkFinished \/ HandlerJoined
CaptureNext == HandlerThread \/ CaptureThread

SpecCapture == CaptureInit /\ [][CaptureNext]_vars

\* both threads are scheduled: the capture thread goes on whenever it has a
\* message or a sequence to run, the handler whenever the flag it waits for
\* has the value it waits for
SpecCaptureFair ==
    /\ CaptureInit
    /\ [][CaptureNext]_vars
    /\ WF_vars(CaptureThread)
    /\ WF_vars(HandlerSet \/ HandlerSeesDark \/ HandlerDarkFinished \/ HandlerJoined)

\* SMN and SMX of the cameras test the other threshold; SNS and SXS of the
\* spectrometer set the attribute inside a try.  sat_log keeps the code, the
\* value, the reply and the thresholds before the call
SatCodes(r) == IF IsCam(r) THEN {"SMN", "SMX"} ELSE {"SNS", "SXS"}
saturation_method(c, code, value) ==
    LET ok == IF code = "SMN" THEN value < c.max_saturation
              ELSE IF code = "SMX" THEN value > c.min_saturation
              ELSE TRUE
        param == IF code \in {"SMN", "SNS"} THEN "min_saturation" ELSE "max_saturation"
        entry == [code |-> code, value |-> value,
                  reply |-> IF ok THEN code ELSE "ERR",
                  min |-> c.min_saturation, max |-> c.max_saturation]
    IN  [reply(IF ok THEN [c EXCEPT ![param] = value] ELSE c,
               IF ok THEN code ELSE "ERR")
            EXCEPT !.sat_log = Append(@, entry), !.taken = @ + 1]

\* the number of threshold commands
MaxSatCmds == 3
SatHandle ==
    /\ camera.taken < MaxSatCmds
    /\ \E code \in SatCodes(camera.role), value \in SatValues :
        camera' = saturation_method(camera, code, value)
    /\ CameraAlone

SpecSaturation == CaptureInit /\ [][SatHandle]_vars

-----------------------------------------------------------------------------
(* stop_instrument.py: close_pycam connects as a client, probes the server *)
(* with LOG 0, asks it to exit and reads up to five replies                *)

\* the reads of the loop that waits for GBY
MaxStopReads == 5
\* what recv_comms returns: a text, or None after its timeout
Received(text) == [none |-> FALSE, text |-> text]
TimedOut == [none |-> TRUE, text |-> <<>>]
\* sock_cli.decode_comms(reply) if not reply is None else ""
stop_decode(rcv) ==
    IF rcv.none THEN [str |-> TRUE, raised |-> FALSE, ret |-> <<>>]
    ELSE [str |-> FALSE,
          raised |-> decode_comms(rcv.text, FALSE, FALSE).raised,
          ret |-> decode_comms(rcv.text, FALSE, FALSE).ret]
\* "GBY" in reply
stop_has_gby(rcv) == ~stop_decode(rcv).str /\ Has(stop_decode(rcv).ret, "GBY")

\* MasterComms.LOG's answer to the probe of a client, as it is written
LogReplyFrame ==
    encode_comms(send_tagged(MasId, <<Pair("LOG", PyInt(0)),
                                      Pair("DST", PyStr(<<"EXN">>))>>))
\* the texts the client reads: MasterComms' answer to LOG 0, its GBY, a
\* device role's answer to EXT, and a bare LOG 0 (which no method of the
\* server writes; another program on the port may)
StopTexts ==
    {LogReplyFrame,
     encode_comms(send_tagged(MasId, <<Pair("GBY", PyBool(TRUE))>>)),
     encode_comms(send_tagged(DevId("CM1"), <<Pair("EXT", PyBool(FALSE))>>)),
     encode_comms(<<Pair("LOG", PyInt(0))>>)}
StopReceives == {Received(t) : t \in StopTexts} \cup {TimedOut}

StopOthers ==
    /\ UNCHANGED <<dev, dev_log, mas_dark_capture, main>>
    /\ UNCHANGED codec_vars
    /\ UNCHANGED cam_vars
    /\ UNCHANGED server_vars
    /\ UNCHANGED recv_vars
    /\ UNCHANGED shut_vars
    /\ UNCHANGED acc_vars

\* close_pycam after connect_socket_timeout: the probe is sent
StopProbe ==
    /\ client.pc = "connected"
    /\ client' = [client EXCEPT !.pc = "probe",
                     !.sent = Append(@, <<Pair("LOG", PyInt(0))>>)]
    /\ StopOthers

\* the reply to the probe is read and compared with {"LOG": 0}
StopProbeReply ==
    /\ client.pc = "probe"
    /\ \E rcv \in StopReceives :
        client' = [client EXCEPT
                     !.probe = rcv,
                     !.pc = IF ~stop_decode(rcv).str
                               /\ stop_decode(rcv).ret = <<Pair("LOG", PyInt(0))>>
                            THEN "exit" ELSE "raised",
                     !.error = IF ~stop_decode(rcv).str
                                  /\ stop_decode(rcv).ret = <<Pair("LOG", PyInt(0))>>
                               THEN "none" ELSE "RuntimeError"]
    /\ StopOthers

\* after the sleep: EXT 1 is sent
StopSendExit ==
    /\ client.pc = "exit"
    /\ client' = [client EXCEPT !.pc = "wait",
                     !.sent = Append(@, <<Pair("EXT", PyInt(1))>>)]
    /\ StopOthers

\* not "GBY" in reply and count < 5 (reply is {} before the first read)
StopLooping ==
    /\ IF Len(client.reads) = 0 THEN TRUE
       ELSE ~stop_has_gby(client.reads[Len(client.reads)])
    /\ client.count < MaxStopReads

\* one read of the loop
StopRead ==
    /\ client.pc = "wait"
    /\ StopLooping
    /\ \E rcv \in StopReceives :
        client' = [client EXCEPT !.reads = Append(@, rcv), !.count = @ + 1]
    /\ StopOthers

\* the loop is left: if count == 5 the script raises RuntimeError
StopAfterReads ==
    /\ client.pc = "wait"
    /\ ~StopLooping
    /\ client' = [client EXCEPT
                     !.pc = IF client.count = MaxStopReads THEN "raised" ELSE "done",
                     !.error = IF client.count = MaxStopReads THEN "RuntimeError"
                               ELSE "none"]
    /\ StopOthers

StopInit ==
    /\ CodecIdle
    /\ CamIdle
    /\ ServerIdle
    /\ RecvIdle
    /\ ShutIdle
    /\ AccIdle
    /\ DevIdle
    /\ MainIdle
    /\ client = [pc |-> "connected", sent |-> <<>>, probe |-> TimedOut,
                 reads |-> <<>>, count |-> 0, error |-> "none"]

StopNext ==
    StopProbe \/ StopProbeReply \/ StopSendExit \/ StopRead \/ StopAfterReads
SpecStop == StopInit /\ [][StopNext]_vars

-----------------------------------------------------------------------------
(* Claims about broadcast routing                                          *)

\* the handshake identity the registry holds for a connected peer
IdentityOf(p) == conn_dict[Addr(p)].id

\* a command set is meant for the party named who: it has no DST or its DST
\* names who, and it has no IDN or its IDN differs from who
MeantFor(cmd, who) ==
    /\ Has(cmd, "DST") => StrIn(who, Get(cmd, "DST"))
    /\ Has(cmd, "IDN") => ~StrEq(Get(cmd, "IDN"), who)
\* a command set is meant for the external peer whose identity is id: its
\* DST, if present, includes EXN, and its IDN is not the peer's identity
MeantForPeer(cmd, id) ==
    /\ Has(cmd, "DST") => StrIn("EXN", Get(cmd, "DST"))
    /\ Has(cmd, "IDN") => ~StrEq(Get(cmd, "IDN"), id)

RECURSIVE EncodeAll(_)
EncodeAll(cmds) ==
    IF cmds = <<>> THEN <<>>
    ELSE <<encode_comms(Head(cmds))>> \o EncodeAll(Tail(cmds))

\* C1: every command set passed to send_to_all is on the queue of a local
\* role exactly once if it is meant for that role (no DST or DST names the
\* role, no IDN or IDN is not the role's identity), and not at all otherwise
C1_LocalRouting ==
    \A r \in RoleSet :
        role_q[r] = SelectSeq(calls, LAMBDA cmd : MeantFor(cmd, r))

\* C2: every command set passed to send_to_all is written to an external
\* connection unless its DST excludes EXN, and never to a peer whose
\* handshake identity is the command set's IDN
C2_ExternalRouting ==
    \A i \in DOMAIN connections :
        wire_out[connections[i]] =
            EncodeAll(SelectSeq(calls,
                LAMBDA cmd : MeantForPeer(cmd, IdentityOf(connections[i]))))

-----------------------------------------------------------------------------
(* Claims about framed reads and the receive workers                       *)

IsPrefix(a, b) == Len(a) <= Len(b) /\ SubSeq(b, 1, Len(a)) = a

\* C3: with one connection, the texts recv_comms returned are the first
\* frames the peer wrote, in order, each once and whole; every other byte
\* is still in the buffer or on its way; a call that used up its polls
\* returned the empty text and left a buffer without a terminator
C3_Framing ==
    /\ IsPrefix(frames_got["1"], sent["p1"])
    /\ StreamOf(frames_got["1"]) \o data_buff \o wire_in["p1"] \o peer_out["p1"]
           = StreamOf(sent["p1"])
    /\ last_ret["1"] = "empty" => find(data_buff, end_str) = -1

\* one frame was returned, and a later call used up its polls with part of
\* the next frame in the buffer
C3_Witness ==
    /\ Len(frames_got["1"]) >= 1
    /\ last_ret["1"] = "empty"
    /\ data_buff # <<>>

\* what the queue of a slot holds when every frame of its peer has been put
\* on it once, decoded and tagged with the identity of that peer's handshake
RECURSIVE DecodedAs(_, _)
DecodedAs(payloads, id) ==
    IF payloads = <<>> THEN <<>>
    ELSE <<tagged(decode_comms(Head(payloads), FALSE, TRUE).ret, id)>>
         \o DecodedAs(Tail(payloads), id)

\* C4: with two peers connected and writing at the same time, the queue of
\* each slot holds frames of its own peer only, in order, each once, tagged
\* with that peer's handshake identity
C4_OwnQueue ==
    \A sl \in Slots :
        slot_conn[sl] # "none" =>
            IsPrefix(slot_q[sl],
                     DecodedAs(sent[slot_conn[sl]], IdentityOf(slot_conn[sl])))

-----------------------------------------------------------------------------
(* Claims about shutdown                                                   *)

\* the good-bye as send_to_all writes it
GoodbyeFrame == encode_comms(send_tagged(MasId, <<Pair("GBY", PyBool(TRUE))>>))
Written(p, frame) == \E k \in DOMAIN wire_out[p] : wire_out[p][k] = frame

\* C10: once MasterComms.EXT has called close_connection on a connection or
\* closed the listening socket, the good-bye has been written to every
\* connection of the list
C10_GoodbyeBeforeClose ==
    (close_tried # {} \/ ~listen_open) =>
        \A i \in DOMAIN connections : Written(connections[i], GoodbyeFrame)

\* EXT has reached its loop over the connections with two peers connected
C10_Witness ==
    /\ close_tried # {}
    /\ Len(connections) = 2

-----------------------------------------------------------------------------
(* Claims about the codec                                                  *)

\* return_errors = return_errors or isinstance(self, SocketServer)
ReportErrors == return_errors \/ is_server

InDomain(key, v) ==
    LET sch == cmd_dict[key]
    IN  CASE sch.ty = "bool" -> v.ty = "bool"
          [] sch.ty = "int" -> v.ty = "int" /\ sch.lo <= v.n /\ v.n <= sch.hi
          [] sch.ty = "float" -> v.ty = "float" /\ sch.lo <= v.n /\ v.n <= sch.hi
          [] OTHER -> /\ v.ty = "str"
                      /\ sch.allowed = {} \/ (Len(v.s) = 1 /\ v.s[1] \in sch.allowed)
SchemaValid(d) == \A i \in DOMAIN d : d[i].k \in CmdCodes /\ InDomain(d[i].k, d[i].v)

\* equal values, floats within 0.01
SameValue(a, b) ==
    /\ a.ty = b.ty
    /\ a.s = b.s
    /\ IF a.ty = "float" THEN a.n - b.n <= 10 /\ b.n - a.n <= 10 ELSE a.n = b.n
SameDict(a, b) ==
    /\ Keys(a) = Keys(b)
    /\ \A key \in Keys(a) : SameValue(Get(a, key), Get(b, key))

\* C5: decoding the encoding of a schema-valid command set returns that
\* command set, floats agreeing within 0.01
C5_RoundTrip ==
    (codec_pc = "decoded" /\ enc_in.given /\ SchemaValid(enc_in.cmd))
        => (~dec_out.raised /\ SameDict(dec_out.ret, enc_in.cmd))

\* the tokens of the decoded text; a key stands at an odd position and its
\* value at the even position after it
mess_list == split(message)
KeyPositions == {j \in 1..Len(mess_list) - 1 : j % 2 = 1}
NumericKey(key) == key \in CmdCodes /\ cmd_dict[key].ty \in {"int", "float"}
NumberAt(j) ==
    IF cmd_dict[mess_list[j]].ty = "int"
    THEN ParseInt(mess_list[j + 1])
    ELSE ParseFloat(mess_list[j + 1])
OutOfRangeAt(j) ==
    /\ NumericKey(mess_list[j])
    /\ NumberAt(j).ok
    /\ \/ NumberAt(j).n < cmd_dict[mess_list[j]].lo
       \/ NumberAt(j).n > cmd_dict[mess_list[j]].hi
AtBoundAt(j) ==
    /\ NumericKey(mess_list[j])
    /\ NumberAt(j).ok
    /\ NumberAt(j).n \in {cmd_dict[mess_list[j]].lo, cmd_dict[mess_list[j]].hi}
UnparsableAt(j) == NumericKey(mess_list[j]) /\ ~NumberAt(j).ok
\* the returned ERR names the code
ErrNames(ret, key) ==
    Has(ret, "ERR") /\ \E i \in DOMAIN Get(ret, "ERR").s : Get(ret, "ERR").s[i] = key
\* decode_comms returned a set without the key, and reported it if reporting is on
Rejected(key) ==
    /\ ~dec_out.raised
    /\ ~Has(dec_out.ret, key)
    /\ ReportErrors => ErrNames(dec_out.ret, key)

\* C6: a bounded numeric key whose value is outside [min, max] is left out
\* of the returned set and, with error reporting on, named in its ERR; a
\* value equal to min or max is accepted
C6_RangeChecked ==
    codec_pc = "decoded" =>
        \A j \in KeyPositions :
            /\ OutOfRangeAt(j) => Rejected(mess_list[j])
            /\ AtBoundAt(j) =>
                /\ ~dec_out.raised
                /\ Has(dec_out.ret, mess_list[j])
                /\ Get(dec_out.ret, mess_list[j]).n = NumberAt(j).n

\* C7: the message is read as key/value pairs: every key of the returned set
\* stands at a key position of the message, and a trailing token without a
\* pair changes nothing
C7_ReadInPairs ==
    (codec_pc = "decoded" /\ ~dec_out.raised) =>
        /\ \A key \in Keys(dec_out.ret) \ {"ERR"} :
               \E j \in KeyPositions : mess_list[j] = key
        /\ Len(mess_list) % 2 = 1 =>
               dec_out = decode_comms(
                   TextOf(SubSeq(mess_list, 1, Len(mess_list) - 1)),
                   return_errors, is_server)

\* C8: decode_comms raises nothing; a key whose value token does not parse
\* as its int or float type is left out of the returned set and, with error
\* reporting on, named in its ERR
C8_NoExceptionOnBadNumber ==
    codec_pc = "decoded" =>
        /\ ~dec_out.raised
        /\ \A j \in KeyPositions : UnparsableAt(j) => Rejected(mess_list[j])

\* C9: the returned set holds only codes of the schema; it has no ERR when
\* error reporting is off, and no empty ERR list
C9_OnlySchemaCodes ==
    (codec_pc = "decoded" /\ ~dec_out.raised) =>
        /\ Keys(dec_out.ret) \subseteq CmdCodes
        /\ ~ReportErrors => ~Has(dec_out.ret, "ERR")
        /\ ErrIsList(dec_out.ret) => Get(dec_out.ret, "ERR").s # <<>>

\* a text with a key out of range and a code outside the schema was decoded
\* with reporting on, and the returned set has its ERR list
C9_Witness ==
    /\ codec_pc = "decoded"
    /\ ~dec_out.raised
    /\ ReportErrors
    /\ \E j \in KeyPositions : OutOfRangeAt(j)
    /\ Len(mess_list) > 2 /\ mess_list[3] \notin CmdCodes
    /\ ErrIsList(dec_out.ret)

-----------------------------------------------------------------------------
(* Shutdown and the connection tables                                      *)

\* C11: once the orchestrator has handled EXT=true (or RST=true), the
\* connection list and the registry become empty and the listening socket is
\* closed
C11_ShutdownClosesAll ==
    mas_event ~> (connections = <<>> /\ DOMAIN conn_dict = {} /\ ~listen_open)

\* C12: the wait of the shutdown for the slots' flags ends, and with it the
\* handler, whether the flags clear or not
C12_WaitTerminates == (mas_pc = "wait") ~> (mas_pc = "stopped")
\* the handler has finished although a slot still shows accepting
C12_Witness ==
    /\ mas_pc = "stopped"
    /\ wait_at > Len(SlotOrder)
    /\ \E sl \in Slots : accepting[sl]

\* the registered connections whose remote port is the value of GBY
GoodbyeFor(cmd) ==
    {p \in Peers : /\ Has(cmd, "GBY")
                   /\ Get(cmd, "GBY").n >= 1024
                   /\ Addr(p)[2] = Get(cmd, "GBY").n}

\* C13: after the orchestrator has handled a GBY whose value is the remote
\* port of a registered connection, that connection is in neither the
\* connection list nor the registry
C13_GoodbyeCloses ==
    \A k \in DOMAIN handled :
        "GBY" \in {handled[k].called[j] : j \in DOMAIN handled[k].called} =>
            \A p \in GoodbyeFor(handled[k].cmd) :
                /\ \A i \in DOMAIN connections : connections[i] # p
                /\ Addr(p) \notin DOMAIN conn_dict

\* the codes of a command set in the order of its keys
KeySeq(cmd) == [i \in DOMAIN cmd |-> cmd[i].k]

\* C20: whatever a method raises, every code of a command set taken from the
\* queue is dispatched and the handler thread stays alive
C20_DispatchSurvives ==
    /\ mas_pc # "dead"
    /\ \A k \in DOMAIN handled : handled[k].called = KeySeq(handled[k].cmd)

\* the codes of a sequence of codes that MasterComms has a method for
WithHandler(ks) == SelectSeq(ks, LAMBDA key : key \in MasHandlers)

\* C21: of a command set with a code MasterComms has no method for, every code
\* that has a method is called once, in the order of the set, and the code
\* without one raises nothing
C21_MissingHandlerSkipped ==
    \A k \in DOMAIN handled :
        (\E i \in DOMAIN handled[k].cmd : handled[k].cmd[i].k \notin MasHandlers) =>
            WithHandler(handled[k].called) = WithHandler(KeySeq(handled[k].cmd))

\* whether the peer is in the connection list, in the registry
Listed(p) == \E i \in DOMAIN connections : connections[i] = p
InRegistry(p) == Addr(p) \in DOMAIN conn_dict

\* C14: close_connection for a connection its peer has already closed (the
\* worker calls it when recv reports the hang-up) raises nothing, leaves no
\* entry for that connection in the list or the registry, and takes no other
\* connection's entry away
C14_CloseAgainHarmless ==
    /\ \A cl \in closes :
          cl.by = "worker" =>
              /\ cl.raised = "none"
              /\ ~Listed(cl.conn)
              /\ ~InRegistry(cl.conn)
    /\ \A p \in sock_open :
          (\A cl \in closes : cl.conn # p) => Listed(p) /\ InRegistry(p)

-----------------------------------------------------------------------------
(* Claims about acceptance                                                 *)

\* the peer's handshake is being read by the acceptance thread of a slot
InHandshake(p) == \E sl \in Slots : acc[sl].pc = "handshake" /\ acc[sl].conn = p
\* close_connection has been called for the peer's connection
CloseCalled(p) == \E cl \in closes : cl.conn = p

\* C15: outside the reading of its handshake, a peer has a registry entry
\* exactly when its accepted socket is open; after a close, and after a
\* failed handshake, it has no open socket and no entry in the registry or
\* the connection list
C15_RegistryMatchesSockets ==
    \A p \in Peers :
        ~InHandshake(p) =>
            /\ InRegistry(p) <=> p \in sock_open
            /\ CloseCalled(p) => p \notin sock_open /\ ~Listed(p) /\ ~InRegistry(p)
            /\ ~InRegistry(p) => ~Listed(p)

\* C16: nothing is written to a connection and nothing from it is queued
\* before its handshake is registered, and a connection whose handshake
\* failed is not in the connection list
C16_NoUseBeforeHandshake ==
    /\ \A p \in Peers : wire_out[p] # <<>> => InRegistry(p)
    /\ \A sl \in Slots :
          slot_q[sl] # <<>> => slot_conn[sl] # "none" /\ InRegistry(slot_conn[sl])
    /\ \A p \in Peers : (Listed(p) /\ ~InRegistry(p)) => InHandshake(p)

\* C17: the identity the registry and the slot hold for a connection is the
\* one its peer declared in its own handshake
C17_IdentityFromOwnHandshake ==
    /\ \A p \in Peers : InRegistry(p) => IdentityOf(p) = HelloOf[p]
    /\ \A sl \in Slots :
          (slot_conn[sl] # "none" /\ slot_id[sl] # "none") =>
              slot_id[sl] = HelloOf[slot_conn[sl]]

\* C19: when the receive thread of a slot has ended on the hang-up of its
\* peer, the slot comes to accept again
C19_SlotAcceptsAgain ==
    \A sl \in Slots :
        (wk[sl].pc \in {"stopped", "dead"} /\ peer_eof[slot_conn[sl]])
            ~> accepting[sl]

-----------------------------------------------------------------------------
(* Claims about the device roles                                           *)

\* a reply for a code: the code with a value, or the error naming the code
ReplyFor(comm, code) ==
    \/ Has(comm, code) /\ ~Has(comm, "ERR")
    \/ Has(comm, "ERR") /\ StrEq(Get(comm, "ERR"), code)

\* C22: every call of a method of CamComms or SpecComms passes exactly one
\* reply to send_tagged_comms, the code with its value or the error naming the
\* code
C22_OneReplyEach ==
    \A k \in DOMAIN dev_log :
        \A j \in DOMAIN dev_log[k].invoked :
            LET inv == dev_log[k].invoked[j]
            IN  inv.code \in DevOwn =>
                    /\ Len(inv.replies) = 1
                    /\ ReplyFor(inv.replies[1], inv.code)

\* the command sets role r has taken
TakenBy(r) == SelectSeq(dev_log, LAMBDA e : e.role = r)
\* the codes of a command set that role r has a method for
OwnCodes(r, cmd) == SelectSeq(KeySeq(cmd), LAMBDA key : key \in DevHandlers(r))

\* C23: a device role that has handled EXT=true calls the methods of the
\* other codes of that command set, takes no further command set, and its
\* loop ends with working false; a role whose loop has ended has handled
\* EXT=true
C23_ExitStopsDispatch ==
    /\ \A r \in DevRoles :
          dev[r].event ~> (dev[r].pc = "stopped" /\ ~dev[r].working)
    /\ [](\A r \in DevRoles : dev[r].pc # "run" => dev[r].event)
    /\ [](\A k \in DOMAIN dev_log :
            (Has(dev_log[k].cmd, "EXT") /\ Truthy(Get(dev_log[k].cmd, "EXT"))) =>
                [i \in DOMAIN dev_log[k].invoked |-> dev_log[k].invoked[i].code]
                    = OwnCodes(dev_log[k].role, dev_log[k].cmd))
    /\ [][\A r \in DevRoles : dev[r].event => TakenBy(r)' = TakenBy(r)]_vars

-----------------------------------------------------------------------------
(* Claims about the client                                                 *)

\* the handshake has been written to the socket, before anything else
HandshakeFirst(sk) == sk.frames # <<>> /\ Head(sk.frames) = handshake_msg
\* the socket object the client holds
ClientSock == client.socks[client.cur]
\* no thread is between setting connect_stat and its send_handshake
NoneAtHandshake == \A i \in DOMAIN client.w : client.w[i].pc # "handshake"

\* C24: nothing is written to a socket before the handshake, and once
\* connect_socket has got past its handshake, connect_stat is true only when
\* the handshake has been written to the client's socket
C24_HandshakeFirst ==
    /\ \A k \in DOMAIN client.socks :
          client.socks[k].frames # <<>> => HandshakeFirst(client.socks[k])
    /\ (client.connect_stat /\ NoneAtHandshake) => HandshakeFirst(ClientSock)

\* C25: connect_socket_timeout returns only with the connection made and the
\* handshake written; after it has raised ConnectionError the event is set,
\* connect_stat is false and no socket of the client is connected
C25_TimeoutOrConnected ==
    /\ client.pc = "returned" =>
          /\ client.connect_stat
          /\ ClientSock.state = "connected"
          /\ HandshakeFirst(ClientSock)
    /\ client.pc = "raised" =>
          /\ client.w[Len(client.w)].event
          /\ ~client.connect_stat
          /\ \A k \in DOMAIN client.socks : client.socks[k].state # "connected"

\* the attempts of connect_with_timeout so far that ended in ConnectionError
FailedPorts ==
    {client.tried[j] : j \in {j \in DOMAIN client.outcome : client.outcome[j] = "raised"}}

\* C26: connect_socket_try_all tries the ports in the order of the list; when
\* it has returned after an attempt that connected, the client's socket is
\* connected to that port, which is its address and the last one tried; and
\* when it has returned, no socket is connected to a port whose attempt failed
C26_FirstPortThatConnects ==
    /\ \A j \in DOMAIN client.tried : client.tried[j] = port_list[j]
    /\ (client.pc = "returned" /\ "returned" \in {client.outcome[j] : j \in DOMAIN client.outcome}) =>
          /\ client.port = client.tried[Len(client.tried)]
          /\ client.outcome[Len(client.outcome)] = "returned"
          /\ client.connect_stat
          /\ ClientSock.state = "connected" /\ ClientSock.port = client.port
    /\ client.pc = "returned" =>
          \A k \in DOMAIN client.socks :
              client.socks[k].state = "connected" =>
                  client.socks[k].port \notin FailedPorts

-----------------------------------------------------------------------------
(* Claims about dark capture                                               *)

\* C27: while dark capture is on, nothing but DXT from a client and SIGUSR1
\* stops the main loop, and a command set taken from a client is passed on
\* without its EXT
C27_DarkCaptureResistsExit ==
    /\ \A s \in main.stops : s.dark => s.by \in {"DXT", "SIGUSR1"}
    /\ \A i \in DOMAIN main.fwd_in_dark : ~Has(main.fwd_in_dark[i], "EXT")

\* a call of send_to_all that put a true EXT on the queue of every local role
ExitQueued ==
    \E i \in DOMAIN calls :
        /\ IsSet(calls[i], "EXT")
        /\ call_raised[i] = "none"
        /\ \A r \in RoleSet : IntEligible(calls[i], r)

\* C28: when the main loop has taken a true DXT during dark capture, it has
\* stopped, and MasterComms' thread is still to take a command set or a true
\* EXT has been put on the queue of every local role
C28_ForcedExitDelivered ==
    main.dxt_in_dark =>
        /\ ~main.running
        /\ mas_pc = "idle" \/ ExitQueued

\* the command set MasterComms' thread takes in this step
TakesSet == Len(handled') = Len(handled) + 1
Taken == handled'[Len(handled')]
Calls(code) == \E j \in DOMAIN Taken.called : Taken.called[j] = code

\* C29: when MasterComms has handled a true DKC, the flags of both cameras
\* are set and so is the aggregate; when it has handled a true DFC of CM1,
\* the flag of CM1 is clear and the flags of CM2 and SPE are what they were;
\* the main loop's dark capture ends only when all three flags are clear, and
\* outlasts the loop's test of the flags only when one of them is set
C29_DarkTracking ==
    [][/\ (TakesSet /\ IsSet(Taken.cmd, "DKC") /\ Calls("DKC")) =>
              /\ mas_dark_capture'["CM1"] /\ mas_dark_capture'["CM2"]
              /\ any_flag(mas_dark_capture')
       /\ (/\ TakesSet /\ IsSet(Taken.cmd, "DFC") /\ Calls("DFC")
           /\ Has(Taken.cmd, "IDN") /\ StrEq(Get(Taken.cmd, "IDN"), "CM1")) =>
              /\ ~mas_dark_capture'["CM1"]
              /\ mas_dark_capture'["CM2"] = mas_dark_capture["CM2"]
              /\ mas_dark_capture'["SPE"] = mas_dark_capture["SPE"]
       /\ (main.dark_capture /\ ~main'.dark_capture) =>
              \A r \in DevRoles : ~mas_dark_capture[r]
       /\ (/\ main.at = "aggregate" /\ main'.at # "aggregate"
           /\ main.dark_capture /\ main'.dark_capture) =>
              any_flag(mas_dark_capture)
      ]_vars

\* MasterComms has handled the DFC of CM1 while CM2 is still in its sequence
C29_Witness ==
    /\ \E k \in DOMAIN handled :
          /\ IsSet(handled[k].cmd, "DFC")
          /\ StrEq(Get(handled[k].cmd, "IDN"), "CM1")
    /\ ~mas_dark_capture["CM1"]
    /\ mas_dark_capture["CM2"]
    /\ main.dark_capture

-----------------------------------------------------------------------------
(* Claims about the hello                                                  *)

\* MasterComms' answer to a hello of EXN
HelloReply ==
    send_tagged(MasId, <<Pair("HLM", PyBool(FALSE)), Pair("DST", PyStr(<<"EXN">>))>>)

\* C30: when MasterComms has handled a true HLO of EXN, every connection that
\* is registered as EXN and up has been written the answer (IDN MAS, HLM
\* false, DST EXN), the request has been written to no peer, and the answer is
\* on the queue of no local role
C30_HelloAnswered ==
    \A k \in DOMAIN handled :
        LET cmd == handled[k].cmd
        IN  (/\ IsSet(cmd, "HLO")
             /\ Has(cmd, "IDN") /\ StrEq(Get(cmd, "IDN"), "EXN")
             /\ \E j \in DOMAIN handled[k].called : handled[k].called[j] = "HLO") =>
                /\ \A p \in Peers :
                      (/\ Addr(p) \in DOMAIN conn_dict
                       /\ conn_dict[Addr(p)].conn = p
                       /\ conn_dict[Addr(p)].id = "EXN"
                       /\ link[p] = "up") => Written(p, encode_comms(HelloReply))
                /\ \A p \in Peers : ~Written(p, encode_comms(cmd))
                /\ \A r \in RoleSet :
                      \A i \in DOMAIN role_q[r] : role_q[r][i] # HelloReply

-----------------------------------------------------------------------------
(* Claims about a failed write                                             *)

\* C18: a write that fails in send_to_all closes and deregisters that
\* connection only: send_to_all raises nothing, every connection that is up
\* stays listed and registered and has been written every command set that
\* passes the test for external connections, and every local role has been
\* queued every command set that passes the test for it
C18_WriteFailureIsolated ==
    /\ \A k \in DOMAIN call_raised : call_raised[k] = "none"
    /\ \A cl \in closes : ~Listed(cl.conn) /\ ~InRegistry(cl.conn)
    /\ \A p \in sock_open :
          link[p] = "up" =>
              /\ Listed(p) /\ InRegistry(p)
              /\ wire_out[p] = EncodeAll(SelectSeq(calls, ExtEligible))
    /\ \A r \in RoleSet :
          role_q[r] = SelectSeq(calls, LAMBDA cmd : IntEligible(cmd, r))

-----------------------------------------------------------------------------
(* Claims about close_connection                                           *)

\* C33: a call of close_connection(connection=c) raises nothing and leaves c
\* in neither the connection list nor the registry, and every peer it was
\* not called for stays where it was
C33_CloseConnectionRemoves ==
    /\ \A cl \in closes :
          /\ cl.raised = "none"
          /\ ~Listed(cl.conn)
          /\ ~InRegistry(cl.conn)
    /\ \A p \in sock_open :
          p \notin {cl.conn : cl \in closes} => Listed(p) /\ InRegistry(p)

\* the connections close_connection is called for in this step
ClosedNow == {cl.conn : cl \in closes' \ closes}

\* C34: whoever calls close_connection for a connection, and whatever the
\* other threads are doing, the step that makes the call takes that
\* connection out of the connection list and the registry together and
\* leaves every other peer's place in both as it was
C34_CloseAtomic ==
    [][\A p \in Peers :
          IF p \in ClosedNow
          THEN (\A i \in DOMAIN connections' : connections'[i] # p)
               /\ Addr(p) \notin DOMAIN conn_dict'
          ELSE ClosedNow # {} =>
                  /\ (\E i \in DOMAIN connections' : connections'[i] = p) = Listed(p)
                  /\ (Addr(p) \in DOMAIN conn_dict') = InRegistry(p)
      ]_vars

\* the peers a command set taken from the main loop can have come from: the
\* receive worker tags it with the identity its connection registered, and
\* a client fills GBY with the local port of its socket
SendersOf(cmd) ==
    {p \in Peers :
        /\ Listed(p) /\ InRegistry(p)
        /\ Has(cmd, "IDN") /\ StrEq(Get(cmd, "IDN"), conn_dict[Addr(p)].id)
        /\ (Has(cmd, "GBY") /\ Get(cmd, "GBY").n >= 1024) =>
              Addr(p)[2] = Get(cmd, "GBY").n}

-----------------------------------------------------------------------------
(* Claims about the handoff from acceptance to receiving                   *)

\* C35: while the receive thread of a slot runs, the slot's flag working is
\* set, its acceptance thread is not running and it is not accepting, and
\* the main loop has not taken the slot for a lost one (it has called
\* close_connection for no connection a running receive thread reads)
C35_HandoffKeepsSlot ==
    \A sl \in Slots :
        wk[sl].pc = "recv" =>
            /\ working[sl]
            /\ ~accepting[sl] /\ acc[sl].pc = "none"
            /\ \A cl \in closes : ~(cl.by = "main" /\ cl.conn = slot_conn[sl])

-----------------------------------------------------------------------------
(* Claims about the device objects                                         *)

\* the thresholds after the k-th threshold command
SatAfter(k) ==
    IF k < Len(camera.sat_log)
    THEN <<camera.sat_log[k + 1].min, camera.sat_log[k + 1].max>>
    ELSE <<camera.min_saturation, camera.max_saturation>>
\* C32: after any sequence of SMN and SMX commands of a camera, or SNS and
\* SXS commands of the spectrometer, min_saturation is less than
\* max_saturation; a command whose value would break that is answered with
\* ERR and leaves both thresholds as they were
C32_SaturationOrdered ==
    camera.role # "none" =>
        /\ camera.min_saturation < camera.max_saturation
        /\ \A k \in DOMAIN camera.sat_log :
            LET e == camera.sat_log[k]
                breaks == IF e.code \in {"SMN", "SNS"} THEN e.value >= e.max
                          ELSE e.value <= e.min
            IN  breaks => e.reply = "ERR" /\ SatAfter(k) = <<e.min, e.max>>


\* C31: whenever a handler sets shutter speed, integration time or framerate
\* itself, the capture thread is in neither its continuous loop nor a dark
\* sequence: it waits at its queue or has ended
C31_SingleWriter ==
    camera.role # "none" =>
        \A k \in DOMAIN camera.writes :
            camera.writes[k].by = "handler" =>
                camera.writes[k].capt \in {"get", "exited"}

\* C36: a handler that has acknowledged DKC (DKS) and waits for the dark
\* sequence sends DFC (DFS) in the end and is ready for the next command
C36_DarkFinishedSent ==
    (camera.role # "none" /\ camera.hand = "wait_in")
        ~> (/\ camera.hand = "idle"
            /\ camera.replies # <<>>
            /\ camera.replies[Len(camera.replies)] \in {"DFC", "DFS"})

-----------------------------------------------------------------------------
(* Claims about a dark capture started with the script                     *)

\* role r has run DKC (DKS) to its end and sent DFC (DFS)
DarkFinishedBy(r) ==
    \E k \in DOMAIN dev_log :
        /\ dev_log[k].role = r
        /\ \E j \in DOMAIN dev_log[k].invoked :
              /\ dev_log[k].invoked[j].code \in {"DKC", "DKS"}
              /\ \E i \in DOMAIN dev_log[k].invoked[j].replies :
                    \/ Has(dev_log[k].invoked[j].replies[i], "DFC")
                    \/ Has(dev_log[k].invoked[j].replies[i], "DFS")

\* C37: in a run started with -d, when the three device roles have sent
\* their DFC and DFS and MasterComms has taken every command set of its
\* queue, the three flags of MasterComms are clear, and so is their
\* aggregate
C37_LaunchedDarkEnds ==
    (/\ main.dark_capture_launch
     /\ \A r \in DevRoles : DarkFinishedBy(r)
     /\ role_q["MAS"] = <<>>
     /\ mas_pc = "idle") =>
        /\ \A r \in DevRoles : ~mas_dark_capture[r]
        /\ ~any_flag(mas_dark_capture)

-----------------------------------------------------------------------------
(* Claims about the stop script                                            *)

\* the script has read a GBY after its EXT
GoodbyeRead == \E k \in DOMAIN client.reads : stop_has_gby(client.reads[k])
\* C40: close_pycam raises RuntimeError only if its probe was not answered
\* with MasterComms' reply to LOG 0 or, the probe answered, if none of its
\* five reads gave a GBY; a probe answered with that reply is followed by
\* EXT 1
C40_StopScript ==
    client.pc \in {"exit", "wait", "raised", "done"} =>
        /\ client.probe = Received(LogReplyFrame) =>
              \/ client.pc = "exit"
              \/ \E i \in DOMAIN client.sent : IsSet(client.sent[i], "EXT")
        /\ client.error = "RuntimeError" =>
              \/ client.probe # Received(LogReplyFrame)
              \/ ~GoodbyeRead

-----------------------------------------------------------------------------
(* Claims about the exchange of replies                                    *)

\* the command sets role dev_log[k].role sent while it handled dev_log[k].cmd
RepliesOf(k) ==
    UNION {{send_tagged(DevId(dev_log[k].role), dev_log[k].invoked[j].replies[i]) :
                i \in DOMAIN dev_log[k].invoked[j].replies} :
           j \in DOMAIN dev_log[k].invoked}
\* C39: the replies to a command set of a peer, whatever identity it names,
\* lead to no endless exchange: no role takes a command set for the second
\* time as the reply to what another role replied to its reply the first
\* time
C39_RepliesEnd ==
    \A k, m, l \in DOMAIN dev_log :
        ~(/\ k < m /\ m < l
          /\ dev_log[l].role = dev_log[k].role
          /\ dev_log[l].cmd = dev_log[k].cmd
          /\ dev_log[m].cmd \in RepliesOf(k)
          /\ dev_log[l].cmd \in RepliesOf(m))

====
